---- MODULE Spec2Model ----
(***************************************************************************)
(* Booking backend of a two-court venue (src/server.js and the earlier     *)
(* revisions kept beside it).  The Google calendar is the only shared      *)
(* state; every handler is modelled from its code, split where it awaits   *)
(* the calendar.                                                           *)
(*                                                                         *)
(* Strings are sequences of atoms.  In the strings that the code parses    *)
(* character by character (dates, HH:MM, durations) every atom is one      *)
(* character; in names, phones and event texts an atom is a character, a   *)
(* word or a phrase of the vocabulary, and includes() and the keyword      *)
(* regular expressions are decided atom by atom.                           *)
(***************************************************************************)
EXTENDS Integers, Sequences, FiniteSets, TLC

\* calendar: the events of the Google calendar, in the order it lists them
\* nextId:   the identifier the calendar gives to the next inserted event
\* pc:       where each HTTP request stands (idle, listing, inserting, done)
\* req:      the request each handler received
\* loc:      the handler's local variables that live across an await
\* resp:     the response sent
\* listed:   the events the handler's list call returned
\* calls:    the calendar calls the handler has made, in order
\* users:    the array stored in the local user file
VARIABLES calendar, nextId, pc, req, loc, resp, listed, calls, users

vars == <<calendar, nextId, pc, req, loc, resp, listed, calls, users>>

(***************************************************************************)
(* Bounds of the model.                                                    *)
(***************************************************************************)
\* longest seeded calendar of the availability specification
MaxEvents == 3
\* longest seeded calendar of the concurrent specification
MaxSeed == 2

(***************************************************************************)
(* JavaScript values and conversions.                                      *)
(***************************************************************************)
Digits == {"0", "1", "2", "3", "4", "5", "6", "7", "8", "9"}

DigitVal ==
  ("0" :> 0) @@ ("1" :> 1) @@ ("2" :> 2) @@ ("3" :> 3) @@ ("4" :> 4) @@
  ("5" :> 5) @@ ("6" :> 6) @@ ("7" :> 7) @@ ("8" :> 8) @@ ("9" :> 9)

DigitChar ==
  (0 :> "0") @@ (1 :> "1") @@ (2 :> "2") @@ (3 :> "3") @@ (4 :> "4") @@
  (5 :> "5") @@ (6 :> "6") @@ (7 :> "7") @@ (8 :> "8") @@ (9 :> "9")

Undefined == [t |-> "undefined"]
Null == [t |-> "null"]
JsNum(n) == [t |-> "number", v |-> n]
JsStr(s) == [t |-> "string", v |-> s]
JsBool(b) == [t |-> "boolean", v |-> b]

\* a number that may be NaN
NaN == [nan |-> TRUE, v |-> 0]
Num(n) == [nan |-> FALSE, v |-> n]

Whitespace == {" "}

RECURSIVE TrimStart(_)
TrimStart(s) ==
  IF s # <<>> /\ Head(s) \in Whitespace THEN TrimStart(Tail(s)) ELSE s

RECURSIVE TrimEnd(_)
TrimEnd(s) ==
  IF s # <<>> /\ s[Len(s)] \in Whitespace
  THEN TrimEnd(SubSeq(s, 1, Len(s) - 1)) ELSE s

\* String.prototype.trim
Trim(s) == TrimEnd(TrimStart(s))

\* the value of a string of decimal digits
RECURSIVE DigitsValue(_)
DigitsValue(s) ==
  IF s = <<>> THEN 0
  ELSE 10 * DigitsValue(SubSeq(s, 1, Len(s) - 1)) + DigitVal[s[Len(s)]]

AllDigits(s) == \A i \in 1..Len(s) : s[i] \in Digits

\* Number(string): blanks are trimmed, "" is 0, decimal digits are read,
\* anything else is NaN
StringToNumber(s) ==
  LET t == Trim(s) IN
  IF t = <<>> THEN Num(0)
  ELSE IF AllDigits(t) THEN Num(DigitsValue(t))
  ELSE NaN

\* Number(x)
ToNumber(x) ==
  CASE x.t = "undefined" -> NaN
    [] x.t = "null" -> Num(0)
    [] x.t = "number" -> Num(x.v)
    [] x.t = "boolean" -> Num(IF x.v THEN 1 ELSE 0)
    [] x.t = "string" -> StringToNumber(x.v)

\* the truthiness that || tests
Truthy(x) ==
  CASE x.t = "undefined" -> FALSE
    [] x.t = "null" -> FALSE
    [] x.t = "number" -> x.v # 0
    [] x.t = "boolean" -> x.v
    [] x.t = "string" -> x.v # <<>>

\* the decimal digits of a natural number
RECURSIVE NatToString(_)
NatToString(n) ==
  IF n < 10 THEN <<DigitChar[n]>>
  ELSE NatToString(n \div 10) \o <<DigitChar[n % 10]>>

\* String(x || '') for the values a JSON body can carry
StringOrEmpty(x) ==
  IF ~Truthy(x) THEN <<>>
  ELSE CASE x.t = "string" -> x.v
         [] x.t = "number" -> NatToString(x.v)
         [] x.t = "boolean" -> <<"t", "r", "u", "e">>

\* pad(n): String(n).padStart(2, '0')
pad(n) ==
  LET s == NatToString(n) IN IF Len(s) < 2 THEN <<"0">> \o s ELSE s

\* the index of the first c in s, or 0
RECURSIVE IndexOf(_, _, _)
IndexOf(s, c, i) ==
  IF i > Len(s) THEN 0
  ELSE IF s[i] = c THEN i
  ELSE IndexOf(s, c, i + 1)

\* Number(s.split(':')[0]) * 60 + Number(s.split(':')[1]) for a string that
\* holds one colon
SplitColonMinutes(s) ==
  LET k == IndexOf(s, ":", 1)
      h == StringToNumber(SubSeq(s, 1, k - 1))
      m == StringToNumber(SubSeq(s, k + 1, Len(s)))
  IN h.v * 60 + m.v

\* /^\d{2}:\d{2}$/
MatchesHHMM(s) ==
  /\ Len(s) = 5
  /\ s[1] \in Digits /\ s[2] \in Digits
  /\ s[3] = ":"
  /\ s[4] \in Digits /\ s[5] \in Digits

\* /^\d{4}-\d{2}-\d{2}$/
MatchesDate(s) ==
  /\ Len(s) = 10
  /\ \A i \in {1, 2, 3, 4, 6, 7, 9, 10} : s[i] \in Digits
  /\ s[5] = "-" /\ s[8] = "-"

(***************************************************************************)
(* Dates and the slot template.                                            *)
(***************************************************************************)
\* days from 1970-01-01 to day 0 of month m (1..12) of year y
DaysToMonth(y, m) ==
  LET yy == IF m <= 2 THEN y - 1 ELSE y
      era == yy \div 400
      yoe == yy - era * 400
      mp == (m + 9) % 12
      doy == (153 * mp + 2) \div 5
      doe == yoe * 365 + yoe \div 4 - yoe \div 100 + doy
  IN era * 146097 + doe - 719468 - 1

\* Date.UTC(y, m - 1, d, 12, 0, 0) as a day number: months and days out of
\* range carry over, years 0..99 are 1900..1999
DateUTCDay(y, m, d) ==
  LET fy == IF y <= 99 THEN 1900 + y ELSE y
      m0 == m - 1
      cy == fy + (m0 \div 12)
      cm == (m0 % 12) + 1
  IN DaysToMonth(cy, cm) + d

\* getUTCDay: 0 is Sunday, 6 is Saturday
getUTCDay(dayNumber) == (dayNumber + 4) % 7

\* the day number of a well-formed YYYY-MM-DD string
DayOf(dateStr) ==
  DateUTCDay(DigitsValue(SubSeq(dateStr, 1, 4)),
             DigitsValue(SubSeq(dateStr, 6, 7)),
             DigitsValue(SubSeq(dateStr, 9, 10)))

isWeekend(dateStr) ==
  LET dow == getUTCDay(DayOf(dateStr)) IN dow = 0 \/ dow = 6

HHMM(t) == pad(t \div 60) \o <<":">> \o pad(t % 60)

\* a loop that steps by the duration: t = first, first + duration, ...
RECURSIVE SlotLoopByDuration(_, _, _)
SlotLoopByDuration(t, lastStart, durationMinutes) ==
  IF t <= lastStart
  THEN <<[start |-> HHMM(t), end |-> HHMM(t + durationMinutes)]>>
         \o SlotLoopByDuration(t + durationMinutes, lastStart, durationMinutes)
  ELSE <<>>

\* the starts t = first, first + 60, ... while t <= lastStart
RECURSIVE SlotLoop(_, _, _)
SlotLoop(t, lastStart, durationMinutes) ==
  IF t <= lastStart
  THEN <<[start |-> HHMM(t), end |-> HHMM(t + durationMinutes)]>>
         \o SlotLoop(t + 60, lastStart, durationMinutes)
  ELSE <<>>

WeekdayOpen == 17
WeekdayClose == 23
WeekendOpen == 9
WeekendClose == 19

\* the template of the revisions that open 18:00-23:00 on every day
generateSlotsFixedWindow(dateISO, durationMinutes) ==
  SlotLoop(18 * 60, WeekdayClose * 60 - durationMinutes, durationMinutes)

generateSlots(dateISO, durationMinutes) ==
  LET weekend == isWeekend(dateISO)
      startHour == IF weekend THEN WeekendOpen ELSE WeekdayOpen
      endHour == IF weekend THEN WeekendClose ELSE WeekdayClose
      lastStart == endHour * 60 - durationMinutes
  IN SlotLoop(startHour * 60, lastStart, durationMinutes)

\* an overlap test that sees only an interval b that starts inside a
overlapsStartInside(aStart, aEnd, bStart, bEnd) ==
  (aStart <= bStart) /\ (bStart < aEnd)

overlaps(aStart, aEnd, bStart, bEnd) == (aStart < bEnd) /\ (bStart < aEnd)

(***************************************************************************)
(* Calendar events.                                                        *)
(***************************************************************************)
\* A timestamp of the calendar API: a date-only string "YYYY-MM-DD" (form
\* "date"), a date-time with a numeric offset "...T18:00:00-03:00" (form
\* "offset") or a UTC date-time "...T18:00:00Z" (form "utc"); min is the
\* minute of the day written in the string.
Timestamp(form, date, min) == [form |-> form, date |-> date, min |-> min]

\* String(ts).length
StringLength(ts) ==
  CASE ts.form = "date" -> 10
    [] ts.form = "offset" -> 25
    [] ts.form = "utc" -> 20

\* String(ev.start).length < 10
IsAllDayStrict(ev) == StringLength(ev.start) < 10

\* String(ev.start).length <= 10
IsAllDay(ev) == StringLength(ev.start) <= 10

\* minutes that America/Sao_Paulo is behind UTC
TzBehindUTC == 180

isoToMinutes(iso) ==
  IF iso.form = "offset" THEN iso.min
  ELSE (iso.min + 1440 - TzBehindUTC) % 1440

\* toLowerCase, atom by atom
toLowerCase(text) ==
  [i \in 1..Len(text) |->
     CASE text[i] = "Quadra 1" -> "quadra 1"
       [] text[i] = "Quadra 2" -> "quadra 2"
       [] text[i] = "Q1" -> "q1"
       [] text[i] = "Q2" -> "q2"
       [] text[i] = "Quadra1" -> "quadra1"
       [] text[i] = "Quadra2" -> "quadra2"
       [] text[i] = "Futevolei" -> "futevolei"
       [] text[i] = "Volei" -> "volei"
       [] text[i] = "Beach Tennis" -> "beach tennis"
       [] text[i] = "BT" -> "bt"
       [] text[i] = "A" -> "a"
       [] text[i] = "B" -> "b"
       [] OTHER -> text[i]]

includes(text, atom) == \E i \in 1..Len(text) : text[i] = atom

\* atoms in which 'futevolei|futvolei|futev[oó]lei' finds a match
FutevoleiAtoms == {"futevolei", "futvolei", "futevólei"}
\* atoms in which 'v[oó]lei' finds a match
VoleiAtoms == {"volei", "vólei", "futevolei", "futvolei", "futevólei"}
\* atoms that hold 'fute'
FuteAtoms == {"fute", "futevolei", "futevólei"}
\* atoms in which 'beach\s*tennis|\bbt\b' finds a match
BeachTennisAtoms == {"beach tennis", "beachtennis", "bt"}

\* new RegExp(rule.pattern, 'i').test(text) for the patterns of the map
RegexTest(pattern, text) ==
  CASE pattern = "futevolei" ->
         \E i \in 1..Len(text) : text[i] \in FutevoleiAtoms
    [] pattern = "volei" ->
         \E i \in 1..Len(text) :
            /\ text[i] \in VoleiAtoms
            /\ \A j \in (i + 1)..Len(text) : text[j] \notin FuteAtoms
    [] pattern = "beachtennis" ->
         \E i \in 1..Len(text) : text[i] \in BeachTennisAtoms

DEFAULT_KEYWORD_MAP ==
  << [pattern |-> "futevolei", court |-> 1],
     [pattern |-> "volei", court |-> 2],
     [pattern |-> "beachtennis", court |-> 2] >>

\* the loop over the keyword rules, from rule i on
RECURSIVE KeywordLoop(_, _)
KeywordLoop(text, i) ==
  IF i > Len(DEFAULT_KEYWORD_MAP)
  THEN [kind |-> "unknownSingle", courts |-> {}, blockBoth |-> FALSE]
  ELSE LET rule == DEFAULT_KEYWORD_MAP[i] IN
       IF RegexTest(rule.pattern, text) /\ rule.court \in {1, 2}
       THEN [kind |-> "known", courts |-> {rule.court}, blockBoth |-> FALSE]
       ELSE KeywordLoop(text, i + 1)

\* the classifier of the first revision: a text without court marker
\* blocks both courts
classifyEventToCourtsBlockBothFallback(ev) ==
  LET text == toLowerCase(ev.summary \o <<" ">> \o ev.description
                            \o <<" ">> \o ev.location)
      q1 == includes(text, "quadra 1") \/ includes(text, "q1")
              \/ includes(text, "quadra1")
      q2 == includes(text, "quadra 2") \/ includes(text, "q2")
              \/ includes(text, "quadra2")
  IN IF q1 /\ ~q2 THEN [kind |-> "known", courts |-> {1}, blockBoth |-> FALSE]
     ELSE IF q2 /\ ~q1
     THEN [kind |-> "known", courts |-> {2}, blockBoth |-> FALSE]
     ELSE [kind |-> "known", courts |-> {1, 2}, blockBoth |-> TRUE]

\* a classifier for which an event naming both courts is two known courts
\* without the blockBoth verdict
classifyEventToCourtsBothAsSet(ev) ==
  LET text == toLowerCase(ev.summary \o <<" ">> \o ev.description
                            \o <<" ">> \o ev.location)
      q1 == includes(text, "quadra 1") \/ includes(text, "q1")
              \/ includes(text, "quadra1")
      q2 == includes(text, "quadra 2") \/ includes(text, "q2")
              \/ includes(text, "quadra2")
  IN IF q1 /\ ~q2 THEN [kind |-> "known", courts |-> {1}, blockBoth |-> FALSE]
     ELSE IF q2 /\ ~q1
     THEN [kind |-> "known", courts |-> {2}, blockBoth |-> FALSE]
     ELSE IF q1 /\ q2
     THEN [kind |-> "known", courts |-> {1, 2}, blockBoth |-> FALSE]
     ELSE KeywordLoop(text, 1)

\* a classifier that consults the keyword rules before the court markers
classifyEventToCourtsKeywordFirst(ev) ==
  LET text == toLowerCase(ev.summary \o <<" ">> \o ev.description
                            \o <<" ">> \o ev.location)
      q1 == includes(text, "quadra 1") \/ includes(text, "q1")
              \/ includes(text, "quadra1")
      q2 == includes(text, "quadra 2") \/ includes(text, "q2")
              \/ includes(text, "quadra2")
      kw == KeywordLoop(text, 1)
  IN IF kw.kind = "known" THEN kw
     ELSE IF q1 /\ ~q2
     THEN [kind |-> "known", courts |-> {1}, blockBoth |-> FALSE]
     ELSE IF q2 /\ ~q1
     THEN [kind |-> "known", courts |-> {2}, blockBoth |-> FALSE]
     ELSE IF q1 /\ q2
     THEN [kind |-> "known", courts |-> {1, 2}, blockBoth |-> TRUE]
     ELSE kw

classifyEventToCourts(ev) ==
  LET text == toLowerCase(ev.summary \o <<" ">> \o ev.description
                            \o <<" ">> \o ev.location)
      q1 == includes(text, "quadra 1") \/ includes(text, "q1")
              \/ includes(text, "quadra1")
      q2 == includes(text, "quadra 2") \/ includes(text, "q2")
              \/ includes(text, "quadra2")
  IN IF q1 /\ ~q2 THEN [kind |-> "known", courts |-> {1}, blockBoth |-> FALSE]
     ELSE IF q2 /\ ~q1
     THEN [kind |-> "known", courts |-> {2}, blockBoth |-> FALSE]
     ELSE IF q1 /\ q2
     THEN [kind |-> "known", courts |-> {1, 2}, blockBoth |-> TRUE]
     ELSE KeywordLoop(text, 1)

\* the instant of a timestamp, in minutes of UTC since 1970; a date-only
\* timestamp is the local midnight of its day
Instant(ts) ==
  DayOf(ts.date) * 1440 +
    (CASE ts.form = "utc" -> ts.min
       [] ts.form = "offset" -> ts.min + TzBehindUTC
       [] ts.form = "date" -> TzBehindUTC)

\* the events that calendar.events.list returns for the day: those that end
\* after timeMin (00:00:00-03:00 of the date) and start before timeMax
\* (23:59:59-03:00), in the order of the calendar, which stands for any
\* order of events of equal start
listEventsForDay(cal, dateStr) ==
  LET timeMin == DayOf(dateStr) * 1440 + TzBehindUTC
      timeMax == (DayOf(dateStr) + 1) * 1440 + TzBehindUTC
  IN SelectSeq(cal, LAMBDA ev :
       Instant(ev.end) > timeMin /\ Instant(ev.start) < timeMax)

(***************************************************************************)
(* Availability.                                                           *)
(***************************************************************************)
\* the inner loop when an all-day event ends it with what was counted so far
RECURSIVE AvailLoopKeepsCount(_, _, _, _, _, _)
AvailLoopKeepsCount(events, i, busyKnown, unknownCount, slotStartMin, slotEndMin) ==
  IF i > Len(events)
  THEN [busyKnown |-> busyKnown, unknownCount |-> unknownCount]
  ELSE LET ev == events[i] IN
    IF IsAllDay(ev)
    THEN [busyKnown |-> busyKnown, unknownCount |-> unknownCount]
    ELSE
      LET evStartMin == isoToMinutes(ev.start)
          evEndMin == isoToMinutes(ev.end)
      IN IF overlaps(slotStartMin, slotEndMin, evStartMin, evEndMin)
         THEN LET cls == classifyEventToCourts(ev) IN
              IF cls.blockBoth
              THEN [busyKnown |-> {1, 2}, unknownCount |-> 0]
              ELSE IF cls.kind = "known"
              THEN AvailLoopKeepsCount(events, i + 1,
                     busyKnown \cup cls.courts, unknownCount, slotStartMin,
                     slotEndMin)
              ELSE AvailLoopKeepsCount(events, i + 1, busyKnown,
                     unknownCount + 1, slotStartMin, slotEndMin)
         ELSE AvailLoopKeepsCount(events, i + 1, busyKnown,
                unknownCount, slotStartMin, slotEndMin)

\* the inner loop of computeAvailability over events[i..], with its breaks
RECURSIVE AvailLoop(_, _, _, _, _, _)
AvailLoop(events, i, busyKnown, unknownCount, slotStartMin, slotEndMin) ==
  IF i > Len(events)
  THEN [busyKnown |-> busyKnown, unknownCount |-> unknownCount]
  ELSE LET ev == events[i] IN
    IF IsAllDay(ev) THEN [busyKnown |-> {1, 2}, unknownCount |-> 0]
    ELSE
      LET evStartMin == isoToMinutes(ev.start)
          evEndMin == isoToMinutes(ev.end)
      IN IF overlaps(slotStartMin, slotEndMin, evStartMin, evEndMin)
         THEN LET cls == classifyEventToCourts(ev) IN
              IF cls.blockBoth
              THEN [busyKnown |-> {1, 2}, unknownCount |-> 0]
              ELSE IF cls.kind = "known"
              THEN AvailLoop(events, i + 1, busyKnown \cup cls.courts,
                             unknownCount, slotStartMin, slotEndMin)
              ELSE AvailLoop(events, i + 1, busyKnown, unknownCount + 1,
                             slotStartMin, slotEndMin)
         ELSE AvailLoop(events, i + 1, busyKnown, unknownCount,
                        slotStartMin, slotEndMin)

Max(a, b) == IF a >= b THEN a ELSE b
Min(a, b) == IF a <= b THEN a ELSE b

\* availableCourts of one slot when the unnamed events are taken as one
SlotAvailabilityOneUnknown(events, slot) ==
  LET slotStartMin == SplitColonMinutes(slot.start)
      slotEndMin == SplitColonMinutes(slot.end)
      acc == AvailLoop(events, 1, {}, 0, slotStartMin, slotEndMin)
      remainingAfterKnown == Max(0, 2 - Cardinality(acc.busyKnown))
      unknownConsumes == Min(acc.unknownCount, 1)
  IN Max(0, remainingAfterKnown - unknownConsumes)

\* availableCourts of one slot as the distance between the free courts and
\* the unnamed events
SlotAvailabilityAbs(events, slot) ==
  LET slotStartMin == SplitColonMinutes(slot.start)
      slotEndMin == SplitColonMinutes(slot.end)
      acc == AvailLoop(events, 1, {}, 0, slotStartMin, slotEndMin)
      remainingAfterKnown == Max(0, 2 - Cardinality(acc.busyKnown))
  IN Max(remainingAfterKnown - acc.unknownCount,
         acc.unknownCount - remainingAfterKnown)

\* availableCourts of one slot
SlotAvailability(events, slot) ==
  LET slotStartMin == SplitColonMinutes(slot.start)
      slotEndMin == SplitColonMinutes(slot.end)
      acc == AvailLoop(events, 1, {}, 0, slotStartMin, slotEndMin)
      remainingAfterKnown == Max(0, 2 - Cardinality(acc.busyKnown))
      unknownConsumes == Min(acc.unknownCount, remainingAfterKnown)
  IN Max(0, remainingAfterKnown - unknownConsumes)

computeAvailability(events, duration, date) ==
  LET baseSlots == generateSlots(date, duration) IN
  [k \in 1..Len(baseSlots) |->
     [start |-> baseSlots[k].start, end |-> baseSlots[k].end,
      availableCourts |-> SlotAvailability(events, baseSlots[k])]]

(***************************************************************************)
(* Requests and responses.                                                 *)
(***************************************************************************)
Procs == {1, 2}

NoBody ==
  [date |-> Undefined, start |-> Undefined, duration |-> Undefined,
   name |-> Undefined, phone |-> Undefined]

NoReq == [kind |-> "none", rev |-> "server", body |-> NoBody]

NoEvent ==
  [id |-> 0, summary |-> <<>>, description |-> <<>>, location |-> <<>>,
   start |-> Timestamp("date", <<>>, 0), end |-> Timestamp("date", <<>>, 0)]

NoLoc ==
  [date |-> <<>>, dur |-> 0, startMin |-> 0, endMin |-> 0, start |-> <<>>,
   end |-> <<>>, chosen |-> 0, busyKnown |-> {}, unknownCount |-> 0,
   event |-> NoEvent]

NoResp ==
  [status |-> 0, error |-> "", court |-> <<>>, start |-> <<>>, end |-> <<>>,
   eventId |-> 0, slots |-> <<>>]

ErrorResp(status, error) == [NoResp EXCEPT !.status = status, !.error = error]

\* [60,120].includes(n)
IsAllowedDuration(n) == ~n.nan /\ n.v \in {60, 120}

\* Number(duration)
DurationOfNoDefault(duration) == ToNumber(duration)

\* Number(duration || 60)
DurationOf(duration) == IF Truthy(duration) THEN ToNumber(duration) ELSE Num(60)

\* `Quadra ${chosen}`
QuadraAtom(chosen) == IF chosen = 1 THEN "Quadra 1" ELSE "Quadra 2"

(***************************************************************************)
(* POST /api/book.                                                         *)
(***************************************************************************)
\* the checks of the handler before its first await: the tag of the failed
\* check, or "ok"
BookValidation(body) ==
  IF ~MatchesDate(StringOrEmpty(body.date)) THEN "date"
  ELSE IF ~MatchesHHMM(StringOrEmpty(body.start)) THEN "start"
  ELSE IF ~IsAllowedDuration(DurationOf(body.duration)) THEN "duration"
  ELSE IF Trim(StringOrEmpty(body.name)) = <<>>
            \/ Trim(StringOrEmpty(body.phone)) = <<>> THEN "name_phone"
  ELSE LET dur == DurationOf(body.duration).v
           start == StringOrEmpty(body.start)
           startMin == SplitColonMinutes(start)
           endMin == startMin + dur
           end == pad(endMin \div 60) \o <<":">> \o pad(endMin % 60)
           allowedSlots == generateSlots(StringOrEmpty(body.date), dur)
           isValidSlot == \E k \in 1..Len(allowedSlots) :
                             /\ allowedSlots[k].start = start
                             /\ allowedSlots[k].end = end
       IN IF ~isValidSlot THEN "slot" ELSE "ok"

\* the checks of the cancel-code revision before its first await
BookValidationCancelCodeRev(body) ==
  IF ~MatchesDate(StringOrEmpty(body.date)) THEN "date"
  ELSE IF ~MatchesHHMM(StringOrEmpty(body.start)) THEN "start"
  ELSE IF ~IsAllowedDuration(DurationOf(body.duration)) THEN "duration"
  ELSE IF Trim(StringOrEmpty(body.name)) = <<>>
            \/ Trim(StringOrEmpty(body.phone)) = <<>> THEN "name_phone"
  ELSE IF isWeekend(StringOrEmpty(body.date)) THEN "weekend"
  ELSE "ok"

\* the status of the response to a failed check
ValidationStatus(tag) == IF tag = "weekend" THEN 409 ELSE 400

\* the locals computed before the first await
BookLocals(body) ==
  LET dur == DurationOf(body.duration).v
      start == StringOrEmpty(body.start)
      startMin == SplitColonMinutes(start)
      endMin == startMin + dur
  IN [NoLoc EXCEPT !.date = StringOrEmpty(body.date), !.dur = dur,
                   !.start = start, !.startMin = startMin,
                   !.endMin = endMin,
                   !.end = pad(endMin \div 60) \o <<":">> \o pad(endMin % 60)]

\* the request arrives and is validated
BookArrive(r, body, rev, tag) ==
  /\ req' = [req EXCEPT ![r] = [kind |-> "book", rev |-> rev, body |-> body]]
  /\ IF tag # "ok"
     THEN /\ resp' = [resp EXCEPT ![r] = ErrorResp(ValidationStatus(tag), tag)]
          /\ pc' = [pc EXCEPT ![r] = "done"]
          /\ loc' = loc
     ELSE /\ loc' = [loc EXCEPT ![r] = BookLocals(body)]
          /\ pc' = [pc EXCEPT ![r] = "listing"]
          /\ resp' = resp
  /\ UNCHANGED <<calendar, nextId, listed, calls, users>>

BookStart(r, body) ==
  /\ pc[r] = "idle"
  /\ BookArrive(r, body, "server", BookValidation(body))

\* the same step of the cancel-code revision
BookStartCancelCodeRev(r, body) ==
  /\ pc[r] = "idle"
  /\ BookArrive(r, body, "cancelCode", BookValidationCancelCodeRev(body))

\* the filter of the booking handler when it keeps the timed events only
SlotEventsTimedOnly(events, startMin, endMin) ==
  SelectSeq(events,
            LAMBDA ev : /\ ~IsAllDay(ev)
                        /\ overlaps(startMin, endMin, isoToMinutes(ev.start),
                                    isoToMinutes(ev.end)))

\* events.filter(...): all-day events and the events that overlap the slot
SlotEvents(events, startMin, endMin) ==
  SelectSeq(events,
            LAMBDA ev : \/ IsAllDay(ev)
                        \/ overlaps(startMin, endMin, isoToMinutes(ev.start),
                                    isoToMinutes(ev.end)))

\* the classification loop over slotEvents[i..], which returns at a
\* blockBoth verdict
RECURSIVE BookLoop(_, _, _, _)
BookLoop(slotEvents, i, busyKnown, unknownCount) ==
  IF i > Len(slotEvents)
  THEN [blockBoth |-> FALSE, busyKnown |-> busyKnown,
        unknownCount |-> unknownCount]
  ELSE LET cls == classifyEventToCourts(slotEvents[i]) IN
       IF cls.blockBoth
       THEN [blockBoth |-> TRUE, busyKnown |-> busyKnown,
             unknownCount |-> unknownCount]
       ELSE IF cls.kind = "known"
       THEN BookLoop(slotEvents, i + 1, busyKnown \cup cls.courts,
                     unknownCount)
       ELSE BookLoop(slotEvents, i + 1, busyKnown, unknownCount + 1)

\* the court chosen without looking at the known-occupied set
ChooseCourtAlwaysFirst(busyKnown) == 1

\* freeCourts[0] ?? 1
ChooseCourt(busyKnown) ==
  LET freeCourts == SelectSeq(<<1, 2>>, LAMBDA c : c \notin busyKnown) IN
  IF freeCourts # <<>> THEN freeCourts[1] ELSE 1

WarningText ==
  <<"\n", "Obs: havia aula/evento sem quadra definida nesse horário.", "\n">>

\* an event whose note is written whenever no known court is taken
BookingEventNoteWithoutUnknown(body, l, rev, chosen, busyKnown, unknownCount) ==
  LET warning == IF Cardinality(busyKnown) = 0 THEN WarningText ELSE <<>>
      code == IF rev = "cancelCode" THEN <<"CancelCode: ", "CODE", "\n">>
              ELSE <<>>
  IN [id |-> 0,
      summary |-> <<"Locação Avulsa - ", QuadraAtom(chosen)>>,
      description |->
        <<"Cliente: ">> \o StringOrEmpty(body.name)
          \o <<"\n", "WhatsApp: ">> \o StringOrEmpty(body.phone)
          \o <<"\n", "Duração: ", IF l.dur = 120 THEN "2h" ELSE "1h">>
          \o <<"\n", "Origem: site", "\n">> \o code \o warning,
      location |-> <<>>,
      start |-> Timestamp("offset", l.date, SplitColonMinutes(l.start)),
      end |-> Timestamp("offset", l.date, SplitColonMinutes(l.end))]

\* the event that the handler asks the calendar to insert
BookingEvent(body, l, rev, chosen, busyKnown, unknownCount) ==
  LET warning == IF unknownCount > 0 /\ Cardinality(busyKnown) = 0
                 THEN WarningText ELSE <<>>
      code == IF rev = "cancelCode" THEN <<"CancelCode: ", "CODE", "\n">>
              ELSE <<>>
  IN [id |-> 0,
      summary |-> <<"Locação Avulsa - ", QuadraAtom(chosen)>>,
      description |->
        <<"Cliente: ">> \o StringOrEmpty(body.name)
          \o <<"\n", "WhatsApp: ">> \o StringOrEmpty(body.phone)
          \o <<"\n", "Duração: ", IF l.dur = 120 THEN "2h" ELSE "1h">>
          \o <<"\n", "Origem: site", "\n">> \o code \o warning,
      location |-> <<>>,
      start |-> Timestamp("offset", l.date, SplitColonMinutes(l.start)),
      end |-> Timestamp("offset", l.date, SplitColonMinutes(l.end))]

\* Math.min(2, busyKnown.size + unknownCount), counting only whether an
\* unnamed event exists
TotalBusyOnePerSlot(busyKnown, unknownCount) ==
  Min(2, Cardinality(busyKnown) + (IF unknownCount > 0 THEN 1 ELSE 0))

\* Math.min(2, busyKnown.size + unknownCount), an unnamed event taking
\* both courts
TotalBusyBlockBoth(busyKnown, unknownCount) ==
  Min(2, Cardinality(busyKnown) + 2 * unknownCount)

\* Math.min(2, busyKnown.size + unknownCount)
TotalBusy(busyKnown, unknownCount) ==
  Min(2, Cardinality(busyKnown) + unknownCount)

\* what the handler decides from the events it listed: a rejection tag, or
\* "ok" with the chosen court
BookDecision(events, l) ==
  LET slotEvents == SlotEvents(events, l.startMin, l.endMin)
      acc == BookLoop(slotEvents, 1, {}, 0)
      totalBusy == TotalBusy(acc.busyKnown, acc.unknownCount)
  IN IF \E i \in 1..Len(slotEvents) : IsAllDay(slotEvents[i])
     THEN [tag |-> "unavailable", chosen |-> 0, busyKnown |-> {},
           unknownCount |-> 0]
     ELSE IF acc.blockBoth
     THEN [tag |-> "unavailable", chosen |-> 0, busyKnown |-> acc.busyKnown,
           unknownCount |-> acc.unknownCount]
     ELSE IF totalBusy >= 2
     THEN [tag |-> "full", chosen |-> 0, busyKnown |-> acc.busyKnown,
           unknownCount |-> acc.unknownCount]
     ELSE [tag |-> "ok", chosen |-> ChooseCourt(acc.busyKnown),
           busyKnown |-> acc.busyKnown, unknownCount |-> acc.unknownCount]

\* the list step of a handler that answers a rejection without returning
BookListNoReturn(r) ==
  /\ pc[r] = "listing"
  /\ req[r].kind = "book"
  /\ LET events == listEventsForDay(calendar, loc[r].date)
         d == BookDecision(events, loc[r])
         chosen == ChooseCourt(d.busyKnown)
     IN /\ listed' = [listed EXCEPT ![r] = events]
        /\ loc' = [loc EXCEPT
                     ![r].chosen = chosen,
                     ![r].busyKnown = d.busyKnown,
                     ![r].unknownCount = d.unknownCount,
                     ![r].event =
                       BookingEvent(req[r].body, loc[r], req[r].rev, chosen,
                                    d.busyKnown, d.unknownCount)]
        /\ resp' = IF d.tag # "ok"
                   THEN [resp EXCEPT ![r] = ErrorResp(409, d.tag)]
                   ELSE resp
  /\ pc' = [pc EXCEPT ![r] = "inserting"]
  /\ calls' = [calls EXCEPT ![r] = Append(@, "list") \o <<"insert">>]
  /\ UNCHANGED <<calendar, nextId, req, users>>

\* the list call answers; the handler checks the conflicts, assigns the
\* court and sends the insert
BookList(r) ==
  /\ pc[r] = "listing"
  /\ req[r].kind = "book"
  /\ LET events == listEventsForDay(calendar, loc[r].date)
         d == BookDecision(events, loc[r])
     IN /\ listed' = [listed EXCEPT ![r] = events]
        /\ IF d.tag # "ok"
           THEN /\ resp' = [resp EXCEPT ![r] = ErrorResp(409, d.tag)]
                /\ pc' = [pc EXCEPT ![r] = "done"]
                /\ loc' = [loc EXCEPT ![r].busyKnown = d.busyKnown,
                                      ![r].unknownCount = d.unknownCount]
                /\ calls' = [calls EXCEPT ![r] = Append(@, "list")]
           ELSE /\ loc' = [loc EXCEPT
                             ![r].chosen = d.chosen,
                             ![r].busyKnown = d.busyKnown,
                             ![r].unknownCount = d.unknownCount,
                             ![r].event =
                               BookingEvent(req[r].body, loc[r], req[r].rev,
                                            d.chosen, d.busyKnown,
                                            d.unknownCount)]
                /\ pc' = [pc EXCEPT ![r] = "inserting"]
                /\ resp' = resp
                /\ calls' = [calls EXCEPT ![r] = Append(@, "list") \o <<"insert">>]
  /\ UNCHANGED <<calendar, nextId, req, users>>

\* ensureAuth or the list call throws: the catch answers 500
ListFail(r) ==
  /\ pc[r] = "listing"
  /\ calls' = [calls EXCEPT ![r] = Append(@, "list")]
  /\ resp' = [resp EXCEPT ![r] = ErrorResp(500, "internal")]
  /\ pc' = [pc EXCEPT ![r] = "done"]
  /\ UNCHANGED <<calendar, nextId, req, loc, listed, users>>

\* an insert that checks the conflicts again when it commits
BookInsertChecked(r) ==
  /\ pc[r] = "inserting"
  /\ LET d == BookDecision(listEventsForDay(calendar, loc[r].date), loc[r]) IN
     IF d.tag = "ok"
     THEN /\ calendar' = Append(calendar, [loc[r].event EXCEPT !.id = nextId])
          /\ nextId' = nextId + 1
          /\ resp' = [resp EXCEPT ![r] =
                        [NoResp EXCEPT !.status = 200,
                                       !.court = <<QuadraAtom(loc[r].chosen)>>,
                                       !.start = loc[r].start,
                                       !.end = loc[r].end,
                                       !.eventId = nextId]]
     ELSE /\ resp' = [resp EXCEPT ![r] = ErrorResp(409, d.tag)]
          /\ UNCHANGED <<calendar, nextId>>
  /\ pc' = [pc EXCEPT ![r] = "done"]
  /\ UNCHANGED <<req, loc, listed, calls, users>>

\* the calendar stores the event and the handler answers
BookInsert(r) ==
  /\ pc[r] = "inserting"
  /\ calendar' = Append(calendar, [loc[r].event EXCEPT !.id = nextId])
  /\ nextId' = nextId + 1
  /\ resp' = [resp EXCEPT ![r] =
                [NoResp EXCEPT !.status = 200,
                               !.court = <<QuadraAtom(loc[r].chosen)>>,
                               !.start = loc[r].start,
                               !.end = loc[r].end,
                               !.eventId = nextId]]
  /\ pc' = [pc EXCEPT ![r] = "done"]
  /\ UNCHANGED <<req, loc, listed, calls, users>>

\* a failed insert that is sent again
BookInsertFailRetry(r) ==
  /\ pc[r] = "inserting"
  /\ calls' = [calls EXCEPT ![r] = Append(@, "insert")]
  /\ UNCHANGED <<calendar, nextId, req, loc, listed, resp, pc, users>>

\* the insert call throws: the catch answers 500
BookInsertFail(r) ==
  /\ pc[r] = "inserting"
  /\ resp' = [resp EXCEPT ![r] = ErrorResp(500, "internal")]
  /\ pc' = [pc EXCEPT ![r] = "done"]
  /\ UNCHANGED <<calendar, nextId, req, loc, listed, calls, users>>

(***************************************************************************)
(* GET /api/slots.                                                         *)
(***************************************************************************)
\* Number(req.query.duration || 60)
SlotsValidation(query) ==
  IF ~MatchesDate(StringOrEmpty(query.date)) THEN "date"
  ELSE IF ~IsAllowedDuration(DurationOf(query.duration)) THEN "duration"
  ELSE "ok"

SlotsStart(r, query) ==
  /\ pc[r] = "idle"
  /\ req' = [req EXCEPT ![r] = [kind |-> "slots", rev |-> "server",
                                body |-> query]]
  /\ LET tag == SlotsValidation(query) IN
     IF tag # "ok"
     THEN /\ resp' = [resp EXCEPT ![r] = ErrorResp(400, tag)]
          /\ pc' = [pc EXCEPT ![r] = "done"]
          /\ loc' = loc
     ELSE /\ loc' = [loc EXCEPT ![r] =
                       [NoLoc EXCEPT !.date = StringOrEmpty(query.date),
                                     !.dur = DurationOf(query.duration).v]]
          /\ pc' = [pc EXCEPT ![r] = "listing"]
          /\ resp' = resp
  /\ UNCHANGED <<calendar, nextId, listed, calls, users>>

SlotsList(r) ==
  /\ pc[r] = "listing"
  /\ req[r].kind = "slots"
  /\ LET events == listEventsForDay(calendar, loc[r].date) IN
     /\ listed' = [listed EXCEPT ![r] = events]
     /\ resp' = [resp EXCEPT ![r] =
                   [NoResp EXCEPT !.status = 200,
                      !.slots = computeAvailability(events, loc[r].dur,
                                                    loc[r].date)]]
  /\ calls' = [calls EXCEPT ![r] = Append(@, "list")]
  /\ pc' = [pc EXCEPT ![r] = "done"]
  /\ UNCHANGED <<calendar, nextId, req, loc, users>>

(***************************************************************************)
(* POST /api/cancel_by_phone.                                              *)
(***************************************************************************)
\* the digits held by one element of a text
DigitsOfAtom(c) ==
  IF c \in Digits THEN <<c>>
  ELSE IF c = "1h" THEN <<"1">>
  ELSE IF c = "2h" THEN <<"2">>
  ELSE <<>>

\* replace(/\D+/g, '')
RECURSIVE KeepDigits(_)
KeepDigits(s) ==
  IF s = <<>> THEN <<>> ELSE DigitsOfAtom(Head(s)) \o KeepDigits(Tail(s))

\* String(s || '').replace(/\D+/g, '')
normalizePhone(s) == KeepDigits(StringOrEmpty(s))

\* elements in which /WhatsApp:/i finds a match, with the blank that follows
WhatsAppAtoms == {"WhatsApp: ", "whatsapp: ", "WHATSAPP: ", "WhatsApp:"}

\* what \s matches
RegexSpace == {" ", "\n", "\t"}

\* the index of the first element from i on that \s* does not consume
RECURSIVE SkipSpace(_, _)
SkipSpace(hay, i) ==
  IF i <= Len(hay) /\ hay[i] \in RegexSpace THEN SkipSpace(hay, i + 1) ELSE i

\* ([^\n]+) from index i on
RECURSIVE TakeLine(_, _)
TakeLine(hay, i) ==
  IF i > Len(hay) \/ hay[i] = "\n" THEN <<>>
  ELSE <<hay[i]>> \o TakeLine(hay, i + 1)

\* hay.match(/WhatsApp:\s*([^\n]+)/i), tried from index i on: the match
\* and its group 1
RECURSIVE MatchWhatsApp(_, _)
MatchWhatsApp(hay, i) ==
  IF i > Len(hay) THEN [found |-> FALSE, group |-> <<>>]
  ELSE IF hay[i] \in WhatsAppAtoms /\ SkipSpace(hay, i + 1) <= Len(hay)
  THEN [found |-> TRUE, group |-> TakeLine(hay, SkipSpace(hay, i + 1))]
  ELSE MatchWhatsApp(hay, i + 1)

extractPhoneFromEvent(ev) ==
  LET hay == ev.summary \o <<"\n">> \o ev.description \o <<"\n">>
               \o ev.location
      m == MatchWhatsApp(hay, 1)
  IN IF ~m.found THEN <<>> ELSE normalizePhone(JsStr(m.group))

\* days of the look-ahead window
LookAheadDays == 120

\* orderBy: 'startTime': insertion of ev into a list sorted by start
RECURSIVE InsertByStart(_, _)
InsertByStart(sorted, ev) ==
  IF sorted = <<>> THEN <<ev>>
  ELSE IF Instant(ev.start) < Instant(Head(sorted).start)
  THEN <<ev>> \o sorted
  ELSE <<Head(sorted)>> \o InsertByStart(Tail(sorted), ev)

RECURSIVE SortByStart(_)
SortByStart(events) ==
  IF events = <<>> THEN <<>>
  ELSE InsertByStart(SortByStart(SubSeq(events, 1, Len(events) - 1)),
                     events[Len(events)])

\* calendar.events.list({timeMin, timeMax, singleEvents, orderBy}): the
\* events that end after timeMin and start before timeMax, by start
eventsListWindow(cal, timeMin, timeMax) ==
  SortByStart(SelectSeq(cal, LAMBDA ev :
                 Instant(ev.end) > timeMin /\ Instant(ev.start) < timeMax))

\* a list call that ignores orderBy
listUpcomingUnordered(cal, now, phoneDigits) ==
  SelectSeq(SelectSeq(cal, LAMBDA ev :
                        /\ Instant(ev.end) > now
                        /\ Instant(ev.start) < now + LookAheadDays * 1440),
            LAMBDA ev : /\ ~IsAllDay(ev)
                        /\ extractPhoneFromEvent(ev) # <<>>
                        /\ extractPhoneFromEvent(ev) = phoneDigits)

listUpcomingReservationsByPhone(cal, now, phoneDigits) ==
  SelectSeq(eventsListWindow(cal, now, now + LookAheadDays * 1440),
            LAMBDA ev : /\ ~IsAllDay(ev)
                        /\ extractPhoneFromEvent(ev) # <<>>
                        /\ extractPhoneFromEvent(ev) = phoneDigits)

\* the body of a cancel request
CancelBody(phone, eventId) == [phone |-> phone, eventId |-> eventId]

\* the handler's locals: the clock of the request, the digits of the
\* claimed phone and the id of the event to delete
CancelLocals(now, phoneDigits) ==
  [now |-> now, phoneDigits |-> phoneDigits, pick |-> 0]

\* a delete that removes every event that starts when the named event does
eventsDeleteSameStart(cal, eventId) ==
  SelectSeq(cal, LAMBDA ev :
    \A i \in 1..Len(cal) : cal[i].id = eventId => ev.start # cal[i].start)

\* calendar.events.delete({eventId})
eventsDelete(cal, eventId) == SelectSeq(cal, LAMBDA ev : ev.id # eventId)

HasEvent(cal, eventId) == \E i \in 1..Len(cal) : cal[i].id = eventId

\* calendar.events.get({eventId})
eventsGet(cal, eventId) == cal[CHOOSE i \in 1..Len(cal) : cal[i].id = eventId]

\* the request arrives at clock now; the phone is normalized and checked
CancelStart(r, body, now) ==
  /\ pc[r] = "idle"
  /\ req' = [req EXCEPT ![r] = [kind |-> "cancel", rev |-> "server",
                                body |-> body]]
  /\ LET phoneDigits == normalizePhone(body.phone) IN
     IF phoneDigits = <<>>
     THEN /\ resp' = [resp EXCEPT ![r] = ErrorResp(400, "phone")]
          /\ pc' = [pc EXCEPT ![r] = "done"]
          /\ loc' = loc
     ELSE /\ loc' = [loc EXCEPT ![r] = CancelLocals(now, phoneDigits)]
          /\ pc' = [pc EXCEPT ![r] = IF ~Truthy(body.eventId)
                                     THEN "cancelListing" ELSE "getting"]
          /\ resp' = resp
  /\ UNCHANGED <<calendar, nextId, listed, calls, users>>

\* without event id: the upcoming reservations of the phone are listed and
\* the delete of the first is sent
CancelList(r) ==
  /\ pc[r] = "cancelListing"
  /\ LET list == listUpcomingReservationsByPhone(calendar, loc[r].now,
                                                 loc[r].phoneDigits)
     IN /\ listed' = [listed EXCEPT ![r] = list]
        /\ IF list = <<>>
           THEN /\ resp' = [resp EXCEPT ![r] = ErrorResp(404, "notfound")]
                /\ pc' = [pc EXCEPT ![r] = "done"]
                /\ loc' = loc
                /\ calls' = [calls EXCEPT ![r] = Append(@, "list")]
           ELSE /\ loc' = [loc EXCEPT ![r].pick = list[1].id]
                /\ pc' = [pc EXCEPT ![r] = "deleting"]
                /\ resp' = resp
                /\ calls' = [calls EXCEPT ![r] = Append(@, "list")
                                                   \o <<"delete">>]
  /\ UNCHANGED <<calendar, nextId, req, users>>

\* with event id, without the comparison of the phones
CancelGetUnchecked(r) ==
  /\ pc[r] = "getting"
  /\ HasEvent(calendar, req[r].body.eventId.v)
  /\ listed' = [listed EXCEPT ![r] =
                  <<eventsGet(calendar, req[r].body.eventId.v)>>]
  /\ loc' = [loc EXCEPT ![r].pick = req[r].body.eventId.v]
  /\ pc' = [pc EXCEPT ![r] = "deleting"]
  /\ calls' = [calls EXCEPT ![r] = Append(@, "get") \o <<"delete">>]
  /\ UNCHANGED <<calendar, nextId, req, resp, users>>

\* with event id: the event is fetched, its phone is compared with the
\* claimed one and the delete is sent
CancelGet(r) ==
  /\ pc[r] = "getting"
  /\ HasEvent(calendar, req[r].body.eventId.v)
  /\ LET ev == eventsGet(calendar, req[r].body.eventId.v)
         ph == extractPhoneFromEvent(ev)
     IN /\ listed' = [listed EXCEPT ![r] = <<ev>>]
        /\ IF ph # loc[r].phoneDigits
           THEN /\ resp' = [resp EXCEPT ![r] = ErrorResp(403, "forbidden")]
                /\ pc' = [pc EXCEPT ![r] = "done"]
                /\ loc' = loc
                /\ calls' = [calls EXCEPT ![r] = Append(@, "get")]
           ELSE /\ loc' = [loc EXCEPT ![r].pick = ev.id]
                /\ pc' = [pc EXCEPT ![r] = "deleting"]
                /\ resp' = resp
                /\ calls' = [calls EXCEPT ![r] = Append(@, "get")
                                                   \o <<"delete">>]
  /\ UNCHANGED <<calendar, nextId, req, users>>

\* the calendar deletes the event and the handler answers
CancelDelete(r) ==
  /\ pc[r] = "deleting"
  /\ HasEvent(calendar, loc[r].pick)
  /\ calendar' = eventsDelete(calendar, loc[r].pick)
  /\ resp' = [resp EXCEPT ![r] = [NoResp EXCEPT !.status = 200,
                                                !.eventId = loc[r].pick]]
  /\ pc' = [pc EXCEPT ![r] = "done"]
  /\ UNCHANGED <<nextId, req, loc, listed, calls, users>>

\* ensureAuth, list, get or delete throws (the calendar is unreachable, or
\* it does not hold the event): the catch answers 500
CancelFail(r) ==
  /\ pc[r] \in {"cancelListing", "getting", "deleting"}
  /\ calls' = [calls EXCEPT ![r] =
                 CASE pc[r] = "cancelListing" -> Append(@, "list")
                   [] pc[r] = "getting" -> Append(@, "get")
                   [] pc[r] = "deleting" -> @]
  /\ resp' = [resp EXCEPT ![r] = ErrorResp(500, "internal")]
  /\ pc' = [pc EXCEPT ![r] = "done"]
  /\ UNCHANGED <<calendar, nextId, req, loc, listed, users>>

(***************************************************************************)
(* POST /api/cancel_lookup.                                                *)
(***************************************************************************)
\* the request arrives: a phone without digits is answered 400
LookupStart(r, body, now) ==
  /\ pc[r] = "idle"
  /\ req' = [req EXCEPT ![r] = [kind |-> "lookup", rev |-> "server",
                                body |-> body]]
  /\ LET phoneDigits == normalizePhone(body.phone) IN
     IF phoneDigits = <<>>
     THEN /\ resp' = [resp EXCEPT ![r] = ErrorResp(400, "phone")]
          /\ pc' = [pc EXCEPT ![r] = "done"]
          /\ loc' = loc
     ELSE /\ loc' = [loc EXCEPT ![r] = CancelLocals(now, phoneDigits)]
          /\ pc' = [pc EXCEPT ![r] = "lookupListing"]
          /\ resp' = resp
  /\ UNCHANGED <<calendar, nextId, listed, calls, users>>

\* the upcoming reservations of the phone are answered, one entry for each
\* event kept in listed
LookupList(r) ==
  /\ pc[r] = "lookupListing"
  /\ listed' = [listed EXCEPT ![r] =
                  listUpcomingReservationsByPhone(calendar, loc[r].now,
                                                  loc[r].phoneDigits)]
  /\ resp' = [resp EXCEPT ![r] = [NoResp EXCEPT !.status = 200]]
  /\ calls' = [calls EXCEPT ![r] = Append(@, "list")]
  /\ pc' = [pc EXCEPT ![r] = "done"]
  /\ UNCHANGED <<calendar, nextId, req, loc, users>>

\* ensureAuth or the list call throws: the catch answers 500
LookupFail(r) ==
  /\ pc[r] = "lookupListing"
  /\ calls' = [calls EXCEPT ![r] = Append(@, "list")]
  /\ resp' = [resp EXCEPT ![r] = ErrorResp(500, "internal")]
  /\ pc' = [pc EXCEPT ![r] = "done"]
  /\ UNCHANGED <<calendar, nextId, req, loc, listed, users>>

(***************************************************************************)
(* The local user file: POST /api/auth/register and reset_password.       *)
(***************************************************************************)
\* users.json: absent, or holding the array that writeUsers stored
NoUsersFile == [exists |-> FALSE, content |-> <<>>]

\* a readUsers for which the file never parses
readUsersUnparsed(file) == <<>>

\* readUsers(): [] when the file does not exist, else the stored array
readUsers(file) == IF ~file.exists THEN <<>> ELSE file.content

\* writeUsers(users)
writeUsers(array) == [exists |-> TRUE, content |-> array]

\* sha256 of the password and the secret, kept symbolic
hashPassword(password) == <<"sha256(">> \o password \o <<"|AUTH_SECRET)">>

UserBody(name, email, phone, password) ==
  [name |-> name, email |-> email, phone |-> phone, password |-> password]

ResetBody(email, phone, newPassword) ==
  [email |-> email, phone |-> phone, newPassword |-> newPassword]

\* the request is received and its body parsed; the handler has not run
UserArrive(r, kind, body) ==
  /\ req' = [req EXCEPT ![r] = [kind |-> kind, rev |-> "server",
                                body |-> body]]
  /\ pc' = [pc EXCEPT ![r] = "queued"]
  /\ UNCHANGED <<calendar, nextId, loc, resp, listed, calls, users>>

RegisterArrive(r, body) ==
  /\ pc[r] = "idle"
  /\ UserArrive(r, "register", body)

ResetArrive(r, body) ==
  /\ pc[r] = "idle"
  /\ UserArrive(r, "reset_password", body)

\* a search of the account by its e-mail alone
FindUserByEmail(array, cleanEmail, cleanPhone) ==
  LET I == { i \in 1..Len(array) : toLowerCase(array[i].email) = cleanEmail }
  IN IF I = {} THEN 0 ELSE CHOOSE i \in I : \A j \in I : i <= j

\* users.findIndex(u => email and phone are the clean ones), 0 for -1
FindUser(array, cleanEmail, cleanPhone) ==
  LET I == { i \in 1..Len(array) :
               /\ toLowerCase(array[i].email) = cleanEmail
               /\ KeepDigits(array[i].phone) = cleanPhone }
  IN IF I = {} THEN 0 ELSE CHOOSE i \in I : \A j \in I : i <= j

\* the register handler, which runs from the read of the file to the
\* response without awaiting
Register(r) ==
  /\ pc[r] = "queued"
  /\ req[r].kind = "register"
  /\ LET body == req[r].body
         cleanName == Trim(StringOrEmpty(body.name))
         cleanEmail == toLowerCase(Trim(StringOrEmpty(body.email)))
         cleanPhone == normalizePhone(body.phone)
         cleanPass == StringOrEmpty(body.password)
         array == readUsers(users)
         user == [id |-> r, name |-> cleanName, email |-> cleanEmail,
                  phone |-> cleanPhone,
                  passwordHash |-> hashPassword(cleanPass),
                  createdAt |-> "now", updatedAt |-> ""]
     IN IF cleanName = <<>> \/ cleanEmail = <<>> \/ cleanPhone = <<>>
             \/ cleanPass = <<>>
        THEN /\ resp' = [resp EXCEPT ![r] = ErrorResp(400, "fields")]
             /\ users' = users
        ELSE IF Len(cleanPass) < 4
        THEN /\ resp' = [resp EXCEPT ![r] = ErrorResp(400, "password")]
             /\ users' = users
        ELSE IF \E i \in 1..Len(array) :
                  toLowerCase(array[i].email) = cleanEmail
        THEN /\ resp' = [resp EXCEPT ![r] = ErrorResp(409, "email")]
             /\ users' = users
        ELSE IF \E i \in 1..Len(array) :
                  KeepDigits(array[i].phone) = cleanPhone
        THEN /\ resp' = [resp EXCEPT ![r] = ErrorResp(409, "phone")]
             /\ users' = users
        ELSE /\ users' = writeUsers(Append(array, user))
             /\ resp' = [resp EXCEPT ![r] = [NoResp EXCEPT !.status = 200,
                                                          !.eventId = r]]
  /\ pc' = [pc EXCEPT ![r] = "done"]
  /\ UNCHANGED <<calendar, nextId, req, loc, listed, calls>>

\* the reset_password handler, which runs without awaiting as well
ResetPassword(r) ==
  /\ pc[r] = "queued"
  /\ req[r].kind = "reset_password"
  /\ LET body == req[r].body
         cleanEmail == toLowerCase(Trim(StringOrEmpty(body.email)))
         cleanPhone == normalizePhone(body.phone)
         cleanPass == StringOrEmpty(body.newPassword)
         array == readUsers(users)
         idx == FindUser(array, cleanEmail, cleanPhone)
     IN IF cleanEmail = <<>> \/ cleanPhone = <<>> \/ cleanPass = <<>>
        THEN /\ resp' = [resp EXCEPT ![r] = ErrorResp(400, "fields")]
             /\ users' = users
        ELSE IF Len(cleanPass) < 4
        THEN /\ resp' = [resp EXCEPT ![r] = ErrorResp(400, "password")]
             /\ users' = users
        ELSE IF idx = 0
        THEN /\ resp' = [resp EXCEPT ![r] = ErrorResp(404, "notfound")]
             /\ users' = users
        ELSE /\ users' = writeUsers(
                  [array EXCEPT ![idx].passwordHash = hashPassword(cleanPass),
                                ![idx].updatedAt = "now"])
             /\ resp' = [resp EXCEPT ![r] = [NoResp EXCEPT !.status = 200]]
  /\ pc' = [pc EXCEPT ![r] = "done"]
  /\ UNCHANGED <<calendar, nextId, req, loc, listed, calls>>

(***************************************************************************)
(* The next request.                                                       *)
(***************************************************************************)
\* the answer was sent: the next request starts from fresh handler locals
NextRequest(r) ==
  /\ pc[r] = "done"
  /\ pc' = [pc EXCEPT ![r] = "idle"]
  /\ req' = [req EXCEPT ![r] = NoReq]
  /\ loc' = [loc EXCEPT ![r] = NoLoc]
  /\ resp' = [resp EXCEPT ![r] = NoResp]
  /\ listed' = [listed EXCEPT ![r] = <<>>]
  /\ calls' = [calls EXCEPT ![r] = <<>>]
  /\ UNCHANGED <<calendar, nextId, users>>

(***************************************************************************)
(* Inputs.                                                                 *)
(***************************************************************************)
Thursday == <<"2", "0", "2", "6", "-", "0", "1", "-", "2", "9">>
Saturday == <<"2", "0", "2", "6", "-", "0", "1", "-", "3", "1">>
Sunday == <<"2", "0", "2", "6", "-", "0", "2", "-", "0", "1">>
Wednesday == <<"2", "0", "2", "6", "-", "0", "1", "-", "2", "8">>
Friday == <<"2", "0", "2", "6", "-", "0", "1", "-", "3", "0">>

\* an event that staff entered by hand on Thursday
StaffEvent(summary, startMin, endMin) ==
  [id |-> 0, summary |-> summary, description |-> <<>>, location |-> <<>>,
   start |-> Timestamp("offset", Thursday, startMin),
   end |-> Timestamp("offset", Thursday, endMin)]

AllDayEvent ==
  [id |-> 0, summary |-> <<"Torneio">>, description |-> <<>>,
   location |-> <<>>,
   start |-> Timestamp("date", Thursday, 0),
   end |-> Timestamp("date", Friday, 0)]

StaffSummaries ==
  { <<"Aula ", "Quadra 1">>, <<"Q2">>, <<"Quadra 1", " e ", "Quadra 2">>,
    <<"Aula">>, <<"Beach Tennis">> }

StaffIntervals == { <<1080, 1140>>, <<1140, 1200>> }

StaffEvents ==
  {AllDayEvent} \cup
  { StaffEvent(s, iv[1], iv[2]) : s \in StaffSummaries, iv \in StaffIntervals }

\* the events of the concurrent specification's seed
ConcEvents ==
  { AllDayEvent, StaffEvent(<<"Aula">>, 1080, 1140),
    StaffEvent(<<"Aula ", "Quadra 1">>, 1080, 1140),
    StaffEvent(<<"Quadra 1", " e ", "Quadra 2">>, 1140, 1200) }

\* the calendars of at most max events of the pool; the calendar numbers
\* its events
SeedCalendars(pool, max) ==
  UNION { { [i \in 1..n |-> [f[i] EXCEPT !.id = i]] : f \in [1..n -> pool] }
          : n \in 0..max }

BookBody(date, start, duration, name, phone) ==
  [date |-> date, start |-> start, duration |-> duration, name |-> name,
   phone |-> phone]

Ana == JsStr(<<"Ana">>)
Fone == JsStr(<<"1", "1", "9">>)

\* well-formed bookings of Thursday evening
GoodBodies ==
  { BookBody(JsStr(Thursday), JsStr(HHMM(t)), JsNum(d), Ana, Fone)
      : t \in {1080, 1140}, d \in {60, 120} }

GoodQueries ==
  { [NoBody EXCEPT !.date = JsStr(dt), !.duration = JsStr(NatToString(d))]
      : dt \in {Thursday, Saturday}, d \in {60, 120} }

\* the bookings of the concurrent specification
ConcBodies ==
  { BookBody(JsStr(Thursday), JsStr(HHMM(t)), JsNum(60), Ana, Fone)
      : t \in {1080, 1350} }
  \cup { BookBody(JsStr(Thursday), JsStr(HHMM(1080)), JsNum(120), Ana, Fone) }

\* raw values of the validation specification
RawDates ==
  { Undefined, JsStr(Thursday), JsStr(Saturday), JsStr(Sunday),
    JsStr(<<"2", "9", "/", "0", "1">>) }

RawStarts ==
  { Undefined, JsStr(<<"9", ":", "0", "0">>) }
  \cup { JsStr(HHMM(t)) : t \in {540, 1020, 1080, 1200, 1320, 1350, 1380} }

RawDurations ==
  { Undefined, Null, JsNum(0), JsNum(60), JsNum(120), JsNum(90), JsNum(30),
    JsStr(<<>>), JsStr(<<"0">>), JsStr(<<"6", "0">>), JsStr(<<"1", "2", "0">>),
    JsStr(<<"9", "0">>), JsStr(<<"1", "h">>), JsBool(TRUE), JsBool(FALSE) }

RawNames == { Undefined, JsStr(<<" ", " ">>), Ana }
RawPhones == { JsStr(<<>>), Fone }

RawBodies ==
  { BookBody(dt, st, du, nm, ph) :
      dt \in RawDates, st \in RawStarts, du \in RawDurations,
      nm \in RawNames, ph \in RawPhones }

RawQueries ==
  { [NoBody EXCEPT !.date = dt, !.duration = du] :
      dt \in RawDates,
      du \in { d \in RawDurations : d.t \in {"undefined", "string"} } }

\* inputs of the cancel requests
FarThursday == <<"2", "0", "2", "6", "-", "0", "6", "-", "0", "4">>

FoneFormatted == JsStr(<<"(", "1", "1", ")", " ", "9">>)
OtherFone == JsStr(<<"7">>)

\* the event that an accepted one-hour booking of court 1 stored
Reservation(date, startMin, phone) ==
  LET body == BookBody(JsStr(date), JsStr(HHMM(startMin)), JsNum(60), Ana,
                       phone)
  IN BookingEvent(body, BookLocals(body), "server", 1, {}, 0)

\* reservations of one phone before, on and after Thursday and beyond the
\* window, a reservation of another phone, an event without phone and an
\* all-day event that carries the phone
CancelEvents ==
  { Reservation(Wednesday, 1080, Fone),
    Reservation(Thursday, 1080, Fone),
    Reservation(Saturday, 540, FoneFormatted),
    Reservation(FarThursday, 1080, Fone),
    Reservation(Thursday, 1020, OtherFone),
    StaffEvent(<<"Aula">>, 1140, 1200),
    [AllDayEvent EXCEPT !.description = <<"WhatsApp: ", "1", "1", "9">>,
                        !.end = Timestamp("date", Friday, 0)] }

\* the clocks of the requests: Thursday noon, Thursday 18:30 and noon of
\* 2026-02-10, in minutes of UTC since 1970
Nows ==
  { DayOf(Thursday) * 1440 + 720 + TzBehindUTC,
    DayOf(Thursday) * 1440 + 1110 + TzBehindUTC,
    (DayOf(Thursday) + 12) * 1440 + 720 + TzBehindUTC }

CancelBodies ==
  { CancelBody(phone, eventId) :
      phone \in {Undefined, Fone, JsStr(<<"1", "1", "-", "9">>), OtherFone},
      eventId \in {Undefined} \cup { JsNum(i) : i \in 1..(MaxEvents + 1) } }

\* inputs of the user requests
EmailAna == JsStr(<<"a", "@", "x">>)
EmailAnaUpper == JsStr(<<"A", "@", "x">>)
EmailBia == JsStr(<<"b", "@", "x">>)
Bia == JsStr(<<"Bia">>)
Senha == JsStr(<<"a", "b", "c", "d">>)
NovaSenha == JsStr(<<"w", "x", "y", "z">>)
SenhaCurta == JsStr(<<"a", "b">>)

\* the user that an earlier registration of Ana stored
StoredAna ==
  [id |-> 0, name |-> <<"Ana">>, email |-> <<"a", "@", "x">>,
   phone |-> <<"1", "1", "9">>, passwordHash |-> hashPassword(Senha.v),
   createdAt |-> "now", updatedAt |-> ""]

UserFiles == {NoUsersFile, writeUsers(<<StoredAna>>)}

RegisterBodies ==
  { UserBody(Bia, email, phone, password) :
      email \in {EmailBia, EmailAnaUpper, JsStr(<<"c", "@", "x">>)},
      phone \in {OtherFone, FoneFormatted, JsStr(<<"2", "1">>), Undefined},
      password \in {Senha, SenhaCurta} }

ResetBodies ==
  { ResetBody(email, phone, password) :
      email \in {EmailAna, EmailAnaUpper, EmailBia},
      phone \in {Fone, OtherFone},
      password \in {NovaSenha, Senha, SenhaCurta} }

\* the requests of the sequential user specification
SeqRegisterBodies ==
  { UserBody(Bia, email, phone, Senha) :
      email \in {EmailBia, EmailAnaUpper, EmailAna},
      phone \in {OtherFone, FoneFormatted, Fone} }
  \cup {UserBody(Bia, EmailBia, OtherFone, SenhaCurta)}

\* events without duration inside a slot and on a slot boundary, an event
\* that ends where the first slot starts, and an hour of court 2
OverlapEvents ==
  { StaffEvent(<<"Aula ", "Quadra 1">>, 1110, 1110),
    StaffEvent(<<"Aula ", "Quadra 1">>, 1080, 1080),
    StaffEvent(<<"Aula ", "Quadra 1">>, 960, 1020),
    StaffEvent(<<"Q2">>, 1140, 1200) }

\* events whose text holds a keyword of one court and a marker of the
\* other, a keyword alone, and a keyword with the markers of both courts
ClassifyEvents ==
  { StaffEvent(<<"Beach Tennis", " - ", "Quadra 1">>, 1080, 1140),
    StaffEvent(<<"Futevolei", " ", "Q2">>, 1080, 1140),
    StaffEvent(<<"Beach Tennis">>, 1140, 1200),
    StaffEvent(<<"Volei", " ", "Quadra 1", " ", "Quadra2">>, 1200, 1260) }

\* an event from one day and minute to another
SpanEvent(summary, startDate, startMin, endDate, endMin) ==
  [id |-> 0, summary |-> summary, description |-> <<>>, location |-> <<>>,
   start |-> Timestamp("offset", startDate, startMin),
   end |-> Timestamp("offset", endDate, endMin)]

\* events of Thursday evening, from Wednesday night into Thursday evening,
\* from Thursday night into Friday, and from Wednesday to Friday
SpanEvents ==
  { SpanEvent(<<"Aula ", "Quadra 1">>, Thursday, 1080, Thursday, 1140),
    SpanEvent(<<"Aula">>, Thursday, 1140, Thursday, 1200),
    SpanEvent(<<"Aula ", "Quadra 1">>, Wednesday, 1320, Thursday, 1110),
    SpanEvent(<<"Q2">>, Thursday, 1320, Friday, 60),
    SpanEvent(<<"Aula">>, Wednesday, 1200, Friday, 600) }

\* events of every kind in the same hour, and an hour of court 2 after it
OrderEvents ==
  { AllDayEvent,
    StaffEvent(<<"Aula ", "Quadra 1">>, 1080, 1140),
    StaffEvent(<<"Aula">>, 1080, 1140),
    StaffEvent(<<"Quadra 1", " e ", "Quadra 2">>, 1080, 1140),
    StaffEvent(<<"Q2">>, 1140, 1200) }

\* a phone without any digit, and a customer name that holds a phone label
FoneSemDigitos == JsStr(<<"a", "b">>)
AnaComRotulo == JsStr(<<"Ana ", "WhatsApp: ", "5">>)

\* the events already stored when the booking arrives
BookCancelEvents ==
  { StaffEvent(<<"Aula">>, 1080, 1140),
    StaffEvent(<<"Aula ", "Quadra 1">>, 1140, 1200),
    Reservation(Thursday, 1080, Fone) }

\* the bookings that are then looked up and cancelled
BookCancelBodies ==
  { BookBody(JsStr(Thursday), JsStr(HHMM(1080)), JsNum(d), name, phone)
      : d \in {60, 120}, name \in {Ana, AnaComRotulo},
        phone \in {Fone, FoneFormatted, FoneSemDigitos} }

\* the lookups and cancels that follow the booking
FollowPhones == {Fone, FoneFormatted, FoneSemDigitos}

FollowCancels ==
  { CancelBody(phone, eventId) :
      phone \in FollowPhones,
      eventId \in {Undefined} \cup { JsNum(i) : i \in 1..(MaxSeed + 1) } }

\* a customer name that holds a court marker
AnaQ2 == JsStr(<<"Ana ", "Q2">>)

\* the bookings of the sequential specification
SeqBodies ==
  { BookBody(JsStr(Thursday), JsStr(HHMM(sl[1])), JsNum(sl[2]), name, Fone)
      : sl \in { <<1080, 60>>, <<1080, 120>>, <<1140, 60>> },
        name \in {Ana, AnaQ2} }

\* the cancels of the sequential specification
SeqCancels ==
  { CancelBody(Fone, eventId) :
      eventId \in {Undefined} \cup { JsNum(i) : i \in 1..MaxEvents } }

\* the clock of the sequential specification: Thursday at noon
ThursdayNoon == DayOf(Thursday) * 1440 + 720 + TzBehindUTC

(***************************************************************************)
(* Specifications.                                                         *)
(***************************************************************************)
InitWithFile(seeds, files) ==
  /\ calendar \in seeds
  /\ nextId = Len(calendar) + 1
  /\ pc = [r \in Procs |-> "idle"]
  /\ req = [r \in Procs |-> NoReq]
  /\ loc = [r \in Procs |-> NoLoc]
  /\ resp = [r \in Procs |-> NoResp]
  /\ listed = [r \in Procs |-> <<>>]
  /\ calls = [r \in Procs |-> <<>>]
  /\ users \in files

InitWith(seeds) == InitWithFile(seeds, {NoUsersFile})

\* concurrent bookings on a small calendar
Init == InitWith(SeedCalendars(ConcEvents, MaxSeed))

Next ==
  \E r \in Procs :
    \/ \E body \in ConcBodies : BookStart(r, body)
    \/ BookList(r)
    \/ ListFail(r)
    \/ BookInsert(r)
    \/ BookInsertFail(r)

Spec == Init /\ [][Next]_vars

\* one request, a slots query or a booking, on every calendar of the pool
InitAvail == InitWith(SeedCalendars(StaffEvents, MaxEvents))

NextAvail ==
  \/ \E body \in GoodBodies : BookStart(1, body)
  \/ BookList(1)
  \/ ListFail(1)
  \/ BookInsert(1)
  \/ BookInsertFail(1)
  \/ \E query \in GoodQueries : SlotsStart(1, query)
  \/ SlotsList(1)

SpecAvail == InitAvail /\ [][NextAvail]_vars

\* one request with raw inputs, handled by either revision
InitInput == InitWith(SeedCalendars({StaffEvent(<<"Aula">>, 1080, 1140)}, 1))

NextInput ==
  \/ \E body \in RawBodies : BookStart(1, body)
  \/ \E body \in RawBodies : BookStartCancelCodeRev(1, body)
  \/ BookList(1)
  \/ ListFail(1)
  \/ BookInsert(1)
  \/ BookInsertFail(1)
  \/ \E query \in RawQueries : SlotsStart(1, query)
  \/ SlotsList(1)

SpecInput == InitInput /\ [][NextInput]_vars

\* one cancel request on every calendar of the cancel pool
InitCancel == InitWith(SeedCalendars(CancelEvents, MaxEvents))

NextCancel ==
  \/ \E body \in CancelBodies, now \in Nows : CancelStart(1, body, now)
  \/ CancelList(1)
  \/ CancelGet(1)
  \/ CancelDelete(1)
  \/ CancelFail(1)

SpecCancel == InitCancel /\ [][NextCancel]_vars

\* two requests on the user file
InitUsers == InitWithFile({<<>>}, UserFiles)

NextUsers ==
  \E r \in Procs :
    \/ \E body \in RegisterBodies : RegisterArrive(r, body)
    \/ \E body \in ResetBodies : ResetArrive(r, body)
    \/ Register(r)
    \/ ResetPassword(r)

SpecUsers == InitUsers /\ [][NextUsers]_vars

\* one request on calendars with events of no or exact length
InitOverlap == InitWith(SeedCalendars(OverlapEvents, MaxSeed))

SpecOverlap == InitOverlap /\ [][NextAvail]_vars

\* one request on calendars whose events carry keywords and court markers
InitClassify == InitWith(SeedCalendars(ClassifyEvents, MaxSeed))

SpecClassify == InitClassify /\ [][NextAvail]_vars

\* a booking arrives, as long as fewer than MaxEvents inserts were made
BookStartBounded(r, body) ==
  /\ nextId <= MaxEvents
  /\ BookStart(r, body)

\* bookings and cancels handled one at a time, from an empty calendar
InitSeq == InitWith({<<>>})

NextSeq ==
  \/ \E body \in SeqBodies : BookStartBounded(1, body)
  \/ BookList(1)
  \/ ListFail(1)
  \/ BookInsert(1)
  \/ BookInsertFail(1)
  \/ \E body \in SeqCancels : CancelStart(1, body, ThursdayNoon)
  \/ CancelList(1)
  \/ CancelGet(1)
  \/ CancelDelete(1)
  \/ CancelFail(1)
  \/ NextRequest(1)

SpecSeq == InitSeq /\ [][NextSeq]_vars

\* a lookup that arrives once request q was answered
LookupAfter(r, q, body) ==
  /\ pc[q] = "done"
  /\ LookupStart(r, body, ThursdayNoon)

\* a cancel that arrives once request q was answered
CancelAfter(r, q, body) ==
  /\ pc[q] = "done"
  /\ CancelStart(r, body, ThursdayNoon)

\* one booking by request 1, then one lookup or cancel by request 2, on
\* Thursday at noon
InitBookCancel == InitWith(SeedCalendars(BookCancelEvents, MaxSeed))

NextBookCancel ==
  \/ \E body \in BookCancelBodies : BookStart(1, body)
  \/ BookList(1)
  \/ ListFail(1)
  \/ BookInsert(1)
  \/ BookInsertFail(1)
  \/ \E phone \in FollowPhones :
       LookupAfter(2, 1, CancelBody(phone, Undefined))
  \/ LookupList(2)
  \/ LookupFail(2)
  \/ \E body \in FollowCancels : CancelAfter(2, 1, body)
  \/ CancelList(2)
  \/ CancelGet(2)
  \/ CancelDelete(2)
  \/ CancelFail(2)

SpecBookCancel == InitBookCancel /\ [][NextBookCancel]_vars

\* one request on calendars whose events cross midnight
InitSpan == InitWith(SeedCalendars(SpanEvents, MaxSeed))

SpecSpan == InitSpan /\ [][NextAvail]_vars

\* registers and resets handled one after the other, from an absent file
InitUsersSeq == InitWith({<<>>})

NextUsersSeq ==
  \/ \E body \in SeqRegisterBodies : RegisterArrive(1, body)
  \/ \E body \in ResetBodies : ResetArrive(1, body)
  \/ Register(1)
  \/ ResetPassword(1)
  \/ NextRequest(1)

SpecUsersSeq == InitUsersSeq /\ [][NextUsersSeq]_vars

\* one request on calendars that hold events of every kind in every order
InitOrder == InitWith(SeedCalendars(OrderEvents, MaxEvents))

SpecOrder == InitOrder /\ [][NextAvail]_vars

TypeOK ==
  /\ pc \in [Procs -> {"idle", "listing", "inserting", "done"}]
  /\ nextId = Len(calendar) + 1
  /\ \A r \in Procs : resp[r].status \in {0, 200, 400, 409, 500}

\* isWeekend on the dates of the model
DatesOK ==
  /\ getUTCDay(DayOf(Thursday)) = 4
  /\ getUTCDay(DayOf(Saturday)) = 6
  /\ getUTCDay(DayOf(Sunday)) = 0
  /\ DayOf(<<"1", "9", "7", "0", "-", "0", "1", "-", "0", "1">>) = 0

(***************************************************************************)
(* Vocabulary of the properties.                                           *)
(***************************************************************************)
\* the minute of the day that an "HH:MM" string names
ClockMinutes(s) ==
  (10 * DigitVal[s[1]] + DigitVal[s[2]]) * 60
    + 10 * DigitVal[s[4]] + DigitVal[s[5]]

HasAllDay(events) == \E i \in 1..Len(events) : events[i].start.form = "date"

\* the timed events of the list that overlap [a, b)
TimedOverlapping(events, a, b) ==
  { i \in 1..Len(events) :
      /\ events[i].start.form # "date"
      /\ isoToMinutes(events[i].start) < b
      /\ a < isoToMinutes(events[i].end) }

HasBlockBoth(events, a, b) ==
  \E i \in TimedOverlapping(events, a, b) :
     classifyEventToCourts(events[i]).blockBoth

\* K: the courts named by the overlapping known events
KnownCourts(events, a, b) ==
  UNION { classifyEventToCourts(events[i]).courts :
            i \in { j \in TimedOverlapping(events, a, b) :
                      classifyEventToCourts(events[j]).kind = "known" } }

\* U: the number of overlapping unknownSingle events
UnknownNumber(events, a, b) ==
  Cardinality({ i \in TimedOverlapping(events, a, b) :
                  classifyEventToCourts(events[i]).kind = "unknownSingle" })

SlotsAnswered(r) == req[r].kind = "slots" /\ resp[r].status = 200

\* the booking handler has listed the day and decided
BookDecided(r) ==
  /\ req[r].kind = "book"
  /\ calls[r] # <<>>
  /\ pc[r] = "inserting" \/ resp[r].status \in {200, 409}

\* the requested interval, read from the request itself
ReqStart(r) == ClockMinutes(req[r].body.start.v)
ReqEnd(r) == ReqStart(r) + ToNumber(req[r].body.duration).v

\* the booking was accepted: the handler sent the insert for court c
AcceptedOn(r, c) ==
  /\ pc[r] \in {"inserting", "done"}
  /\ calls[r] = <<"list", "insert">>
  /\ loc[r].chosen = c
  /\ loc[r].event.summary = <<"Locação Avulsa - ", QuadraAtom(c)>>
  /\ pc[r] = "done" =>
       \/ resp[r].status = 200 /\ resp[r].court = <<QuadraAtom(c)>>
       \/ resp[r].status = 500

RejectedAs(r, tag) ==
  /\ pc[r] = "done"
  /\ resp[r].status = 409
  /\ resp[r].error = tag
  /\ calls[r] = <<"list">>

(***************************************************************************)
(* Properties.                                                             *)
(***************************************************************************)
\* C1: in every slots answer, a slot of a day without all-day event and
\* without overlapping blockBoth event has availableCourts equal to
\* max(0, 2 - |K| - U); availableCourts is always 0, 1 or 2, and is 2 in
\* every slot when the day has no event.
C1_AvailabilityFormula ==
  \A r \in Procs : SlotsAnswered(r) =>
    \A k \in 1..Len(resp[r].slots) :
      LET slot == resp[r].slots[k]
          a == ClockMinutes(slot.start)
          b == ClockMinutes(slot.end)
          K == KnownCourts(listed[r], a, b)
          U == UnknownNumber(listed[r], a, b)
      IN /\ slot.availableCourts \in {0, 1, 2}
         /\ listed[r] = <<>> => slot.availableCourts = 2
         /\ ~HasAllDay(listed[r]) /\ ~HasBlockBoth(listed[r], a, b) =>
              slot.availableCourts = Max(0, 2 - Cardinality(K) - U)

\* a slots answer with a slot where one known court and two unnamed events
\* meet, so that 2 - |K| - U is negative
C1_Witness ==
  \E r \in Procs :
    /\ SlotsAnswered(r)
    /\ ~HasAllDay(listed[r])
    /\ \E k \in 1..Len(resp[r].slots) :
         LET slot == resp[r].slots[k]
             a == ClockMinutes(slot.start)
             b == ClockMinutes(slot.end)
         IN /\ ~HasBlockBoth(listed[r], a, b)
            /\ Cardinality(KnownCourts(listed[r], a, b)) = 1
            /\ UnknownNumber(listed[r], a, b) = 2
            /\ slot.availableCourts = 0

\* C2: when the listed day holds an all-day event, wherever it sits in the
\* list and whatever the other events are, every slot of the slots answer
\* has availableCourts 0 and a booking is rejected as unavailable without
\* an insert.
C2_AllDayBlocks ==
  \A r \in Procs : calls[r] # <<>> /\ HasAllDay(listed[r]) =>
    /\ req[r].kind = "slots" =>
         /\ resp[r].status = 200
         /\ resp[r].slots # <<>>
         /\ \A k \in 1..Len(resp[r].slots) :
              resp[r].slots[k].availableCourts = 0
    /\ req[r].kind = "book" => RejectedAs(r, "unavailable")

\* a booking rejected as unavailable whose list holds the all-day event
\* last, after two timed events
C2_Witness ==
  \E r \in Procs :
    /\ req[r].kind = "book"
    /\ RejectedAs(r, "unavailable")
    /\ Len(listed[r]) = 3
    /\ listed[r][1].start.form # "date"
    /\ listed[r][2].start.form # "date"
    /\ listed[r][3].start.form = "date"

\* the slot [a, b) is overlapped by exactly one unknownSingle event and by
\* no other event
OneUnknownOnly(events, a, b) ==
  /\ ~HasAllDay(events)
  /\ Cardinality(TimedOverlapping(events, a, b)) = 1
  /\ UnknownNumber(events, a, b) = 1

\* C3: a slot overlapped by exactly one unknownSingle event and by no known
\* event has availableCourts 1, and a booking of it is accepted on court 1.
C3_OneUnknownLeavesCourt1 ==
  \A r \in Procs :
    /\ SlotsAnswered(r) =>
         \A k \in 1..Len(resp[r].slots) :
           LET slot == resp[r].slots[k] IN
           OneUnknownOnly(listed[r], ClockMinutes(slot.start),
                          ClockMinutes(slot.end))
             => slot.availableCourts = 1
    /\ BookDecided(r) /\ OneUnknownOnly(listed[r], ReqStart(r), ReqEnd(r))
         => AcceptedOn(r, 1)

\* a booking answered with court 1 although an unnamed event shares its slot
C3_Witness ==
  \E r \in Procs :
    /\ BookDecided(r)
    /\ OneUnknownOnly(listed[r], ReqStart(r), ReqEnd(r))
    /\ resp[r].status = 200
    /\ resp[r].court = <<"Quadra 1">>

\* the slot [a, b) has |K| + U >= 2 with no blockBoth and no all-day event
TwoTaken(events, a, b) ==
  /\ ~HasAllDay(events)
  /\ ~HasBlockBoth(events, a, b)
  /\ Cardinality(KnownCourts(events, a, b)) + UnknownNumber(events, a, b) >= 2

\* the calendar holds no event that a booking created
NoBookingEvent ==
  \A i \in 1..Len(calendar) : calendar[i].summary[1] # "Locação Avulsa - "

\* C4: a slot with |K| + U >= 2, without blockBoth or all-day event, has
\* availableCourts 0, and a booking of it is rejected as fully booked
\* without an insert.
C4_TwoTakenIsFull ==
  \A r \in Procs :
    /\ SlotsAnswered(r) =>
         \A k \in 1..Len(resp[r].slots) :
           LET slot == resp[r].slots[k] IN
           TwoTaken(listed[r], ClockMinutes(slot.start),
                    ClockMinutes(slot.end))
             => slot.availableCourts = 0
    /\ BookDecided(r) /\ TwoTaken(listed[r], ReqStart(r), ReqEnd(r))
         => RejectedAs(r, "full") /\ NoBookingEvent

\* a two-hour booking rejected as fully booked by a court-1 event and a
\* court-2 event that follow each other
C4_Witness ==
  \E r \in Procs :
    /\ BookDecided(r)
    /\ RejectedAs(r, "full")
    /\ ReqEnd(r) - ReqStart(r) = 120
    /\ UnknownNumber(listed[r], ReqStart(r), ReqEnd(r)) = 0
    /\ KnownCourts(listed[r], ReqStart(r), ReqEnd(r)) = {1, 2}
    /\ \A i, j \in TimedOverlapping(listed[r], ReqStart(r), ReqEnd(r)) :
         i # j => ~overlaps(isoToMinutes(listed[r][i].start),
                            isoToMinutes(listed[r][i].end),
                            isoToMinutes(listed[r][j].start),
                            isoToMinutes(listed[r][j].end))

\* C5: an accepted booking gets the lowest court outside the known-occupied
\* set of its slot: court 1, or court 2 when court 1 is known-occupied; the
\* set never holds both courts.
C5_LowestFreeCourt ==
  \A r \in Procs :
    req[r].kind = "book" /\ (pc[r] = "inserting" \/ resp[r].status = 200) =>
      LET K == KnownCourts(listed[r], ReqStart(r), ReqEnd(r))
          c == IF 1 \in K THEN 2 ELSE 1
      IN /\ K # {1, 2}
         /\ c \notin K
         /\ AcceptedOn(r, c)

\* a booking answered with court 2 because court 1 is known-occupied
C5_Witness ==
  \E r \in Procs :
    /\ req[r].kind = "book"
    /\ resp[r].status = 200
    /\ resp[r].court = <<"Quadra 2">>
    /\ KnownCourts(listed[r], ReqStart(r), ReqEnd(r)) = {1}

\* the request carries a well-formed date of the model and, for a booking,
\* a start of the form HH:MM
WellFormedDateStart(r) ==
  /\ req[r].body.date \in {JsStr(Thursday), JsStr(Saturday), JsStr(Sunday)}
  /\ req[r].kind = "book" =>
       /\ req[r].body.start.t = "string"
       /\ Len(req[r].body.start.v) = 5

\* opening and closing hour of the model's dates
OpenHour(date) == IF date = Thursday THEN 17 ELSE 9
CloseHour(date) == IF date = Thursday THEN 23 ELSE 19

\* [startMin, startMin + dur) is a member of the template of the date
InTemplate(date, startMin, dur) ==
  /\ startMin % 60 = 0
  /\ startMin >= OpenHour(date) * 60
  /\ startMin + dur <= CloseHour(date) * 60

\* the request was refused by a validation check, before any calendar call
RejectedInvalid(r, tag) ==
  /\ pc[r] = "done"
  /\ resp[r].status = 400
  /\ resp[r].error = tag
  /\ calls[r] = <<>>

\* the request was refused before any calendar call
RefusedBeforeCalendar(r) ==
  /\ pc[r] = "done"
  /\ resp[r].status \in {400, 409}
  /\ calls[r] = <<>>

\* C6: a booking whose [start, end) is not a member of the slot template of
\* its date and duration (an off-grid or out-of-hours start) is refused
\* before the calendar is consulted; only template members go on to the
\* calendar.
C6_TemplateGate ==
  \A r \in Procs :
    /\ req[r].kind = "book"
    /\ WellFormedDateStart(r)
    /\ ~InTemplate(req[r].body.date.v, ReqStart(r),
                   DurationOf(req[r].body.duration).v)
    => RefusedBeforeCalendar(r)

\* C6 for the handler of src/server.js alone
C6_ServerTemplateGate ==
  \A r \in Procs :
    /\ req[r].kind = "book"
    /\ req[r].rev = "server"
    /\ WellFormedDateStart(r)
    /\ resp[r].error \notin {"duration", "name_phone"}
    => IF InTemplate(req[r].body.date.v, ReqStart(r),
                     DurationOf(req[r].body.duration).v)
       THEN resp[r].status # 400
       ELSE RejectedInvalid(r, "slot")

\* the handler of src/server.js refused the 22:30 booking of a weekday
C6_ServerWitness ==
  \E r \in Procs :
    /\ req[r].rev = "server"
    /\ req[r].body.date = JsStr(Thursday)
    /\ req[r].body.start = JsStr(HHMM(1350))
    /\ RejectedInvalid(r, "slot")

\* C7: the template of a weekday is the hourly starts from 17:00 to
\* 23:00 - duration, that of a Saturday or Sunday the hourly starts from
\* 09:00 to 19:00 - duration; a weekday with duration 60 has the six slots
\* 17:00..22:00; on a Saturday a booking at 09:00 is in the template and one
\* at 20:00 is not.
C7_SlotTemplate ==
  \A r \in Procs :
    /\ SlotsAnswered(r) =>
         LET date == req[r].body.date.v
             dur == loc[r].dur
             slots == resp[r].slots
         IN /\ Len(slots) =
                 (CloseHour(date) * 60 - dur - OpenHour(date) * 60) \div 60 + 1
            /\ \A k \in 1..Len(slots) :
                 /\ ClockMinutes(slots[k].start)
                      = OpenHour(date) * 60 + 60 * (k - 1)
                 /\ ClockMinutes(slots[k].end)
                      = ClockMinutes(slots[k].start) + dur
            /\ date = Thursday /\ dur = 60 =>
                 /\ Len(slots) = 6
                 /\ slots[1].start = <<"1", "7", ":", "0", "0">>
                 /\ slots[6].start = <<"2", "2", ":", "0", "0">>
    /\ /\ req[r].kind = "book"
       /\ req[r].rev = "server"
       /\ req[r].body.date = JsStr(Saturday)
       /\ resp[r].error \notin {"duration", "name_phone"}
       => /\ req[r].body.start = JsStr(<<"0", "9", ":", "0", "0">>)
               => resp[r].status # 400
          /\ req[r].body.start = JsStr(<<"2", "0", ":", "0", "0">>)
               => RejectedInvalid(r, "slot")

\* the slots answer of Sunday for two hours: nine slots, 09:00 to 17:00
C7_Witness ==
  \E r \in Procs :
    /\ SlotsAnswered(r)
    /\ req[r].body.date = JsStr(Sunday)
    /\ loc[r].dur = 120
    /\ Len(resp[r].slots) = 9
    /\ resp[r].slots[9].start = <<"1", "7", ":", "0", "0">>

\* the duration values that are the number 60 or 120
ExactDurations ==
  { JsNum(60), JsNum(120), JsStr(<<"6", "0">>), JsStr(<<"1", "2", "0">>) }

\* the duration values that || replaces by 60
AbsentDurations == { Undefined, Null, JsNum(0), JsStr(<<>>), JsBool(FALSE) }

\* C8 as stated: every request whose duration is not exactly 60 or 120,
\* a missing, empty or zero one included, is refused with the duration
\* error before any calendar call.
C8_EveryOtherDurationRejected ==
  \A r \in Procs :
    /\ req[r].kind # "none"
    /\ WellFormedDateStart(r)
    /\ req[r].body.duration \notin ExactDurations
    => RejectedInvalid(r, "duration")

\* C8: a request whose duration is present, is not zero and is not the
\* number 60 or 120 is refused with the duration error before any calendar
\* call; a missing, null, empty, false or zero duration is taken as 60 and
\* is not refused for its duration.
C8_DurationCheck ==
  \A r \in Procs :
    req[r].kind # "none" /\ WellFormedDateStart(r) =>
      LET d == req[r].body.duration IN
      /\ d \notin ExactDurations \cup AbsentDurations
           => RejectedInvalid(r, "duration")
      /\ d \in ExactDurations \cup AbsentDurations
           => /\ resp[r].error # "duration"
              /\ pc[r] \in {"listing", "inserting"} \/ calls[r] # <<>> =>
                   loc[r].dur = IF d \in AbsentDurations THEN 60
                                ELSE ToNumber(d).v

\* a booking sent without duration and answered for the hour 18:00-19:00
C8_Witness ==
  \E r \in Procs :
    /\ req[r].kind = "book"
    /\ req[r].body.duration = Undefined
    /\ resp[r].status = 200
    /\ resp[r].end = <<"1", "9", ":", "0", "0">>

\* C9: nothing between the conflict check and the insert looks at the
\* calendar again: a request that passed the check ends with its event
\* appended as it was decided, whatever the calendar holds by then, or with
\* the internal error of a failed call.
C9_InsertWithoutRecheck ==
  [][ \A r \in Procs :
        pc[r] = "inserting" /\ pc'[r] # "inserting" =>
          /\ pc'[r] = "done"
          /\ \/ /\ resp'[r].status = 200
                /\ calendar' = Append(calendar,
                                      [loc[r].event EXCEPT !.id = nextId])
             \/ /\ resp'[r].status = 500
                /\ calendar' = calendar ]_vars

\* both requests were accepted for the same hour on court 1 and the
\* calendar holds both events
C9_Witness ==
  /\ \A r \in Procs :
       /\ resp[r].status = 200
       /\ resp[r].court = <<"Quadra 1">>
       /\ resp[r].start = <<"1", "8", ":", "0", "0">>
       /\ resp[r].end = <<"1", "9", ":", "0", "0">>
  /\ \E i, j \in 1..Len(calendar) :
       /\ i # j
       /\ calendar[i].id = resp[1].eventId
       /\ calendar[j].id = resp[2].eventId
       /\ calendar[i].summary = calendar[j].summary
       /\ calendar[i].start = calendar[j].start

\* the insert was sent once, after the validation, the conflict check and
\* the court assignment succeeded
InsertAfterChecks(r) ==
  "insert" \in { calls[r][i] : i \in 1..Len(calls[r]) } =>
    /\ calls[r] = <<"list", "insert">>
    /\ InTemplate(req[r].body.date.v, ReqStart(r), ReqEnd(r) - ReqStart(r))
    /\ ~HasAllDay(listed[r])
    /\ ~HasBlockBoth(listed[r], ReqStart(r), ReqEnd(r))
    /\ Cardinality(KnownCourts(listed[r], ReqStart(r), ReqEnd(r)))
         + UnknownNumber(listed[r], ReqStart(r), ReqEnd(r)) < 2
    /\ loc[r].chosen \in {1, 2} \ KnownCourts(listed[r], ReqStart(r), ReqEnd(r))
    /\ resp[r].status \in {0, 200, 500}

\* C10: the insert is sent only after validation, conflict check and court
\* assignment succeeded, and once per request; the calendar changes only by
\* the completion of such an insert, which appends one event; a request that
\* ends in a validation error or in an unavailable or fully booked
\* rejection has sent no insert and its steps leave the calendar as it was.
C10_InsertOnlyAfterChecks ==
  [][ /\ \A r \in Procs : InsertAfterChecks(r)'
      /\ calendar' # calendar =>
           \E r \in Procs :
             /\ pc[r] = "inserting" /\ pc'[r] = "done"
             /\ resp'[r].status = 200
             /\ calendar' = Append(calendar,
                                   [loc[r].event EXCEPT !.id = nextId])
      /\ \A r \in Procs :
           pc[r] # "done" /\ pc'[r] = "done" /\ resp'[r].status \in {400, 409}
             => calendar' = calendar ]_vars

\* one request was refused as fully booked and another for an off-grid
\* start, and the calendar holds no booking
C10_Witness ==
  /\ \E r \in Procs : RejectedAs(r, "full")
  /\ \E r \in Procs : RejectedInvalid(r, "slot")
  /\ NoBookingEvent
  /\ calendar # <<>>

\* the calendar calls a request has sent are the list and then the insert,
\* each at most once
CallsOnce(r) == calls[r] \in {<<>>, <<"list">>, <<"list", "insert">>}

\* C11: when the list or the insert of a booking request throws, the
\* request ends with the internal error response in that step, the step
\* leaves the calendar as it was, no call is sent a second time, and the
\* request stays answered with that error: it never inserts afterwards.
C11_CalendarFailureIsFinal ==
  [][ \A r \in Procs :
        /\ CallsOnce(r)'
        /\ pc[r] \in {"listing", "inserting"} /\ resp'[r].status = 500 =>
             /\ pc'[r] = "done"
             /\ resp'[r] = ErrorResp(500, "internal")
             /\ calls'[r] = IF pc[r] = "listing"
                            THEN <<"list">> ELSE <<"list", "insert">>
             /\ calendar' = calendar
             /\ nextId' = nextId
        /\ resp[r].status = 500 =>
             /\ pc[r] = "done"
             /\ UNCHANGED <<pc[r], resp[r], calls[r]>>
        /\ pc[r] \in {"listing", "inserting"} /\ pc'[r] = "done" =>
             resp'[r].status # 0 ]_vars

\* the list of one request and the insert of the other have thrown, and
\* the calendar holds no booking
C11_Witness ==
  /\ \E r \in Procs :
       /\ pc[r] = "done" /\ resp[r] = ErrorResp(500, "internal")
       /\ calls[r] = <<"list">>
  /\ \E r \in Procs :
       /\ pc[r] = "done" /\ resp[r] = ErrorResp(500, "internal")
       /\ calls[r] = <<"list", "insert">>
  /\ NoBookingEvent

\* the surface forms of a court's marker, in lower case
CourtMarkers(c) ==
  IF c = 1 THEN {"quadra 1", "q1", "quadra1"} ELSE {"quadra 2", "q2", "quadra2"}

\* the courts that the text of the event names by a marker
NamedCourts(ev) ==
  LET text == toLowerCase(ev.summary \o ev.description \o ev.location)
  IN { c \in {1, 2} : \E i \in 1..Len(text) : text[i] \in CourtMarkers(c) }

\* the timed events overlapping [a, b) whose text names no court
Unmarked(events, a, b) ==
  { i \in TimedOverlapping(events, a, b) : NamedCourts(events[i]) = {} }

\* the slot [a, b) is overlapped by exactly one event, which names no court
OneUnmarkedOnly(events, a, b) ==
  /\ ~HasAllDay(events)
  /\ Cardinality(TimedOverlapping(events, a, b)) = 1
  /\ Unmarked(events, a, b) # {}

\* only events that name no court overlap the slot [a, b)
OnlyUnmarked(events, a, b) ==
  /\ ~HasAllDay(events)
  /\ Unmarked(events, a, b) # {}
  /\ Unmarked(events, a, b) = TimedOverlapping(events, a, b)

BothNamed(events, a, b) ==
  { i \in TimedOverlapping(events, a, b) : NamedCourts(events[i]) = {1, 2} }

\* C13: an event whose text holds a marker of court 1 and a marker of
\* court 2 is classified blockBoth; every slot it overlaps has
\* availableCourts 0 whatever the other events are, and a booking of an
\* overlapping slot is rejected as unavailable, not as fully booked, after
\* the list call only, without an insert.
C13_BothMarkersBlockBoth ==
  \A r \in Procs :
    /\ \A i \in 1..Len(listed[r]) :
         NamedCourts(listed[r][i]) = {1, 2} =>
           classifyEventToCourts(listed[r][i]) =
             [kind |-> "known", courts |-> {1, 2}, blockBoth |-> TRUE]
    /\ SlotsAnswered(r) =>
         \A k \in 1..Len(resp[r].slots) :
           LET slot == resp[r].slots[k] IN
           BothNamed(listed[r], ClockMinutes(slot.start),
                     ClockMinutes(slot.end)) # {}
             => slot.availableCourts = 0
    /\ /\ req[r].kind = "book"
       /\ calls[r] # <<>>
       /\ listed[r] # <<>>
       /\ BothNamed(listed[r], ReqStart(r), ReqEnd(r)) # {}
       => /\ RejectedAs(r, "unavailable")
          /\ "insert" \notin { calls[r][i] : i \in 1..Len(calls[r]) }

\* a booking rejected as unavailable for a slot where an event naming both
\* courts overlaps together with one other event, which alone would leave a
\* court free
C13_Witness ==
  \E r \in Procs :
    /\ req[r].kind = "book"
    /\ RejectedAs(r, "unavailable")
    /\ ~HasAllDay(listed[r])
    /\ Cardinality(TimedOverlapping(listed[r], ReqStart(r), ReqEnd(r))) = 2
    /\ Cardinality(BothNamed(listed[r], ReqStart(r), ReqEnd(r))) = 1
    /\ NoBookingEvent

\* the digits written on the phone line of the description: the elements
\* between the label and the end of its line
PhoneLineDigits(ev) ==
  LET d == ev.description
      I == { i \in 1..Len(d) : d[i] = "WhatsApp: " }
  IN IF I = {} THEN <<>>
     ELSE LET i == CHOOSE k \in I : \A m \in I : k <= m
              J == { k \in (i + 1)..(Len(d) + 1) :
                       k = Len(d) + 1 \/ d[k] = "\n" }
              j == CHOOSE k \in J : \A m \in J : k <= m
          IN SelectSeq(SubSeq(d, i + 1, j - 1), LAMBDA c : c \in Digits)

\* the digits of the phone that the cancel request claims
ClaimedDigits(r) ==
  SelectSeq(StringOrEmpty(req[r].body.phone), LAMBDA c : c \in Digits)

\* the event has not ended at the clock and starts within 120 days of it
UpcomingInWindow(ev, now) ==
  /\ Instant(ev.end) > now
  /\ Instant(ev.start) < now + 120 * 24 * 60

\* the timed events of the calendar, upcoming within the window at the
\* clock of request r, whose phone line holds the claimed digits
Candidates(r) ==
  { i \in 1..Len(calendar) :
      /\ calendar[i].start.form # "date"
      /\ PhoneLineDigits(calendar[i]) = ClaimedDigits(r)
      /\ UpcomingInWindow(calendar[i], loc[r].now) }

RemoveAt(cal, i) == SubSeq(cal, 1, i - 1) \o SubSeq(cal, i + 1, Len(cal))

CancelWithoutId(r) ==
  /\ req[r].kind = "cancel"
  /\ ~Truthy(req[r].body.eventId)
  /\ pc[r] \in {"cancelListing", "deleting"}

CancelWithId(r) ==
  /\ req[r].kind = "cancel"
  /\ Truthy(req[r].body.eventId)
  /\ pc[r] \in {"getting", "deleting"}

\* C14: a cancel request without event id deletes, among the timed events
\* upcoming within the window whose phone line holds the claimed digits,
\* one of earliest start, and answers with its id; when there is none it
\* answers not found after the list call and deletes nothing; when a
\* calendar call throws it answers the internal error and deletes nothing.
C14_CancelEarliestOfPhone ==
  [][ \A r \in Procs : CancelWithoutId(r) =>
        /\ pc[r] = "cancelListing" /\ pc'[r] = "deleting"
             => Candidates(r) # {}
        /\ pc'[r] = "done" =>
             \/ /\ resp'[r].status = 200
                /\ \E i \in Candidates(r) :
                     /\ \A j \in Candidates(r) :
                          Instant(calendar[i].start)
                            <= Instant(calendar[j].start)
                     /\ resp'[r].eventId = calendar[i].id
                     /\ calendar' = RemoveAt(calendar, i)
             \/ /\ resp'[r] = ErrorResp(404, "notfound")
                /\ pc[r] = "cancelListing"
                /\ Candidates(r) = {}
                /\ calls'[r] = <<"list">>
                /\ calendar' = calendar
             \/ /\ resp'[r] = ErrorResp(500, "internal")
                /\ calendar' = calendar ]_vars

\* a cancel without event id deleted the earlier of two reservations of the
\* phone although the later one came first in the calendar
C14_Witness ==
  \E r \in Procs :
    /\ req[r].kind = "cancel"
    /\ ~Truthy(req[r].body.eventId)
    /\ resp[r].status = 200
    /\ Len(listed[r]) = 2
    /\ resp[r].eventId = listed[r][1].id
    /\ listed[r][2].id < listed[r][1].id
    /\ Instant(listed[r][1].start) < Instant(listed[r][2].start)
    /\ ~HasEvent(calendar, resp[r].eventId)
    /\ HasEvent(calendar, listed[r][2].id)

\* the event that the id of the cancel request names, looked up in cal
NamedEvent(cal, r) ==
  cal[CHOOSE i \in 1..Len(cal) : cal[i].id = req[r].body.eventId.v]

\* C15: a cancel request with event id deletes that event, and only when
\* the digits of the event's phone line equal the digits of the claimed
\* phone; when they differ, also when the event has no phone line, the
\* handler answers with the authorization rejection after the get call and
\* the event stays in the calendar.
C15_CancelByIdChecksPhone ==
  [][ \A r \in Procs : CancelWithId(r) /\ pc'[r] # pc[r] =>
        LET id == req[r].body.eventId.v
            held == HasEvent(calendar, id)
            same == PhoneLineDigits(NamedEvent(calendar, r)) = ClaimedDigits(r)
        IN /\ pc[r] = "getting" /\ pc'[r] = "deleting" => held /\ same
           /\ pc[r] = "getting" /\ held /\ ~same =>
                /\ resp'[r] \in {ErrorResp(403, "forbidden"),
                                 ErrorResp(500, "internal")}
                /\ resp'[r].status = 403 => calls'[r] = <<"get">>
                /\ calendar' = calendar
           /\ resp'[r].status = 403 => held /\ ~same
           /\ resp'[r].status = 200 =>
                /\ held /\ same
                /\ resp'[r].eventId = id
                /\ ~HasEvent(calendar', id)
                /\ \E i \in 1..Len(calendar) :
                     calendar[i].id = id /\ calendar' = RemoveAt(calendar, i)
           /\ calendar' # calendar => resp'[r].status = 200 ]_vars

\* a cancel with the id of an event without phone line was answered with
\* the authorization rejection and the event is still in the calendar
C15_Witness ==
  \E r \in Procs :
    /\ req[r].kind = "cancel"
    /\ Truthy(req[r].body.eventId)
    /\ resp[r] = ErrorResp(403, "forbidden")
    /\ HasEvent(calendar, req[r].body.eventId.v)
    /\ PhoneLineDigits(NamedEvent(calendar, r)) = <<>>
    /\ ClaimedDigits(r) # <<>>

\* C16: every event that a cancel request deletes, with or without event
\* id, is upcoming within the 120-day window at the clock of the request:
\* it has not ended and starts less than 120 days ahead.
C16_CancelOnlyUpcoming ==
  [][ \A r \in Procs :
        req[r].kind = "cancel" /\ pc[r] = "deleting" /\ pc'[r] = "done" =>
          \A i \in 1..Len(calendar) :
            ~HasEvent(calendar', calendar[i].id) =>
              UpcomingInWindow(calendar[i], loc[r].now) ]_vars

\* the handler of request r runs in this step
UserHandlerRuns(r) ==
  /\ req[r].kind \in {"register", "reset_password"}
  /\ pc[r] = "queued"
  /\ pc'[r] = "done"

\* the stored array, as a later reader finds it
StoredUsers == IF users.exists THEN users.content ELSE <<>>

\* the accepted registration of request r is in the file
Registered(r) ==
  \E i \in 1..Len(StoredUsers) :
    /\ StoredUsers[i].id = r
    /\ StoredUsers[i].name = <<"Bia">>
    /\ StoredUsers[i].phone =
         SelectSeq(req[r].body.phone.v, LAMBDA c : c \in Digits)

SlotsOrderedAligned(date, slots) ==
  /\ \A k \in 1..Len(slots) : ClockMinutes(slots[k].start) % 60 = 0
  /\ \A k \in 1..(Len(slots) - 1) :
       ClockMinutes(slots[k].start) < ClockMinutes(slots[k + 1].start)
  /\ slots # <<>> =>
       ClockMinutes(slots[Len(slots)].end) <= CloseHour(date) * 60

\* no two slots share a minute and each starts where the previous one ends
SlotsDisjointContiguous(slots) ==
  /\ \A i, j \in 1..Len(slots) :
       i < j => ClockMinutes(slots[i].end) <= ClockMinutes(slots[j].start)
  /\ \A k \in 1..(Len(slots) - 1) :
       ClockMinutes(slots[k + 1].start) = ClockMinutes(slots[k].end)

\* C18 as stated: for either duration the slots of an answer are ordered by
\* start, start on the hour, do not overlap pairwise, are contiguous, and
\* the last one ends no later than closing time.
C18_SlotsContiguous ==
  \A r \in Procs : SlotsAnswered(r) =>
    /\ SlotsOrderedAligned(req[r].body.date.v, resp[r].slots)
    /\ SlotsDisjointContiguous(resp[r].slots)

\* C18: for either duration the slots of an answer are ordered by start,
\* start on the hour one hour after one another, last the duration each,
\* and the last one ends at closing time; for duration 60 they do not
\* overlap and are contiguous; for duration 120 each slot starts in the
\* middle of the previous one, so neighbours share an hour and only slots
\* two places apart are contiguous.
C18_SlotsHourlyStarts ==
  \A r \in Procs : SlotsAnswered(r) =>
    LET slots == resp[r].slots
        date == req[r].body.date.v
        dur == loc[r].dur
    IN /\ SlotsOrderedAligned(date, slots)
       /\ slots # <<>>
       /\ ClockMinutes(slots[Len(slots)].end) = CloseHour(date) * 60
       /\ \A k \in 1..Len(slots) :
            ClockMinutes(slots[k].end) = ClockMinutes(slots[k].start) + dur
       /\ \A k \in 1..(Len(slots) - 1) :
            ClockMinutes(slots[k + 1].start)
              = ClockMinutes(slots[k].start) + 60
       /\ dur = 60 => SlotsDisjointContiguous(slots)
       /\ dur = 120 =>
            /\ \A k \in 1..(Len(slots) - 1) :
                 overlaps(ClockMinutes(slots[k].start),
                          ClockMinutes(slots[k].end),
                          ClockMinutes(slots[k + 1].start),
                          ClockMinutes(slots[k + 1].end))
            /\ \A k \in 1..(Len(slots) - 2) :
                 ClockMinutes(slots[k + 2].start) = ClockMinutes(slots[k].end)

\* a two-hour answer for Thursday whose second slot, 18:00-20:00, starts
\* inside the first, 17:00-19:00
C18_Witness ==
  \E r \in Procs :
    /\ SlotsAnswered(r)
    /\ loc[r].dur = 120
    /\ req[r].body.date.v = Thursday
    /\ Len(resp[r].slots) = 5
    /\ resp[r].slots[1].end = <<"1", "9", ":", "0", "0">>
    /\ resp[r].slots[2].start = <<"1", "8", ":", "0", "0">>

\* the timed events of the list that last no time
ZeroLength(events) ==
  { i \in 1..Len(events) :
      /\ events[i].start.form # "date"
      /\ isoToMinutes(events[i].start) = isoToMinutes(events[i].end) }

\* the list without its events that last no time
WithoutZeroLength(events) ==
  SelectSeq(events, LAMBDA ev :
    ev.start.form = "date" \/ isoToMinutes(ev.start) # isoToMinutes(ev.end))

\* C19: overlaps gives the same answer when its two intervals are swapped
\* and answers false when one of them has no length or when one ends where
\* the other starts; so an event without length never reduces the
\* availability of a slot: every slot of a slots answer has the
\* availability it has without such events.
C19_ZeroLengthNeverOverlaps ==
  \A r \in Procs : SlotsAnswered(r) =>
    \A k \in 1..Len(resp[r].slots) :
      LET slot == resp[r].slots[k]
          a == ClockMinutes(slot.start)
          b == ClockMinutes(slot.end)
      IN /\ \A i \in 1..Len(listed[r]) :
              listed[r][i].start.form # "date" =>
                LET c == isoToMinutes(listed[r][i].start)
                    d == isoToMinutes(listed[r][i].end)
                IN /\ overlaps(a, b, c, d) = overlaps(c, d, a, b)
                   /\ d = a \/ b = c => ~overlaps(a, b, c, d)
                   /\ c = d \/ a = b => ~overlaps(a, b, c, d)
         /\ slot.availableCourts =
              computeAvailability(WithoutZeroLength(listed[r]), loc[r].dur,
                                  loc[r].date)[k].availableCourts

\* the elements in which a keyword rule of the given court finds a match
KeywordsOf(c) ==
  IF c = 1 THEN {"futevolei", "futvolei", "futevólei"}
  ELSE {"volei", "vólei", "beach tennis", "beachtennis", "bt"}

HasKeywordOf(ev, c) ==
  LET text == toLowerCase(ev.summary \o ev.description \o ev.location)
  IN \E i \in 1..Len(text) : text[i] \in KeywordsOf(c)

\* the slot [a, b) is overlapped by exactly one event, whose text holds the
\* marker of court c alone and a keyword of the other court
OneMarkedAgainstKeyword(events, a, b, c) ==
  /\ ~HasAllDay(events)
  /\ Cardinality(TimedOverlapping(events, a, b)) = 1
  /\ \A i \in TimedOverlapping(events, a, b) :
       /\ NamedCourts(events[i]) = {c}
       /\ HasKeywordOf(events[i], 3 - c)

\* C20: the court marker decides before any keyword rule: an event whose
\* text holds the marker of one court only is known for that court, also
\* when the text matches a keyword rule of the other court; a slot that
\* such an event overlaps alone has one court left and a booking of it is
\* accepted on the court that the keyword names, not on the marked one.
C20_MarkerBeforeKeyword ==
  \A r \in Procs :
    /\ \A i \in 1..Len(listed[r]) : \A c \in {1, 2} :
         NamedCourts(listed[r][i]) = {c} =>
           classifyEventToCourts(listed[r][i]) =
             [kind |-> "known", courts |-> {c}, blockBoth |-> FALSE]
    /\ SlotsAnswered(r) =>
         \A k \in 1..Len(resp[r].slots) : \A c \in {1, 2} :
           LET slot == resp[r].slots[k] IN
           OneMarkedAgainstKeyword(listed[r], ClockMinutes(slot.start),
                                   ClockMinutes(slot.end), c)
             => slot.availableCourts = 1
    /\ \A c \in {1, 2} :
         /\ BookDecided(r)
         /\ OneMarkedAgainstKeyword(listed[r], ReqStart(r), ReqEnd(r), c)
         => AcceptedOn(r, 3 - c)

\* a booking answered with court 2 for the hour of 'Beach Tennis - Quadra 1'
C20_Witness ==
  \E r \in Procs :
    /\ BookDecided(r)
    /\ OneMarkedAgainstKeyword(listed[r], ReqStart(r), ReqEnd(r), 1)
    /\ \E i \in 1..Len(listed[r]) :
         listed[r][i].summary = <<"Beach Tennis", " - ", "Quadra 1">>
    /\ resp[r].status = 200
    /\ resp[r].court = <<"Quadra 2">>

\* the description holds the note for the staff
HasStaffNote(ev) ==
  \E i \in 1..Len(ev.description) :
    ev.description[i] =
      "Obs: havia aula/evento sem quadra definida nesse horário."

\* the event that the accepted booking of request r stored
StoredBooking(r) ==
  calendar[CHOOSE i \in 1..Len(calendar) : calendar[i].id = resp[r].eventId]

\* C21: the event of an accepted booking carries the note for the staff
\* exactly when an event classified unknownSingle overlapped the booked
\* slot, in the event sent to the calendar and in the event stored.
C21_NoteIffUnknownShared ==
  \A r \in Procs :
    /\ req[r].kind = "book" /\ calls[r] = <<"list", "insert">> =>
         (HasStaffNote(loc[r].event)
            <=> UnknownNumber(listed[r], ReqStart(r), ReqEnd(r)) >= 1)
    /\ req[r].kind = "book" /\ resp[r].status = 200 =>
         (HasStaffNote(StoredBooking(r))
            <=> UnknownNumber(listed[r], ReqStart(r), ReqEnd(r)) >= 1)

\* an accepted booking stored with the note, beside an unnamed event and
\* an event of another hour that names a court
C21_Witness ==
  \E r \in Procs :
    /\ req[r].kind = "book"
    /\ resp[r].status = 200
    /\ HasStaffNote(StoredBooking(r))
    /\ UnknownNumber(listed[r], ReqStart(r), ReqEnd(r)) = 1
    /\ Len(listed[r]) >= 2


\* the bijections of 1..n
Orders(n) ==
  { p \in [1..n -> 1..n] : \A i, j \in 1..n : p[i] = p[j] => i = j }

\* the events in the order p
Reordered(events, p) == [i \in 1..Len(events) |-> events[p[i]]]

\* C22: the answer of /api/slots is what computeAvailability gives again
\* for the events, duration and date of the request, and what it gives for
\* the same events in every other order.
C22_OrderOfEventsIrrelevant ==
  \A r \in Procs :
    SlotsAnswered(r) =>
      \A p \in Orders(Len(listed[r])) :
        computeAvailability(Reordered(listed[r], p), loc[r].dur, loc[r].date)
          = resp[r].slots

\* an answer for a day with an event counted in a slot listed before an
\* all-day event
C22_Witness ==
  \E r \in Procs :
    /\ SlotsAnswered(r)
    /\ Len(listed[r]) >= 2
    /\ ~IsAllDay(listed[r][1])
    /\ IsAllDay(listed[r][Len(listed[r])])
    /\ \E k \in 1..Len(resp[r].slots) :
         overlaps(ClockMinutes(resp[r].slots[k].start),
                  ClockMinutes(resp[r].slots[k].end),
                  isoToMinutes(listed[r][1].start),
                  isoToMinutes(listed[r][1].end))


\* availableCourts that computeAvailability reports, for the events the
\* booking handler of r listed, in the slot the request asks for
ReportedForRequest(r) ==
  LET out == computeAvailability(listed[r],
                                 ToNumber(req[r].body.duration).v,
                                 req[r].body.date.v)
      k == CHOOSE k \in 1..Len(out) : out[k].start = req[r].body.start.v
  IN out[k].availableCourts

\* computeAvailability reports the slot that the request asks for
RequestedSlotReported(r) ==
  LET baseSlots == generateSlots(req[r].body.date.v,
                                 ToNumber(req[r].body.duration).v)
  IN \E k \in 1..Len(baseSlots) :
       /\ baseSlots[k].start = req[r].body.start.v
       /\ baseSlots[k].end = loc[r].end

\* C23: a booking of a template slot that passed validation and listed the
\* day is answered with a conflict (409) exactly when computeAvailability
\* reports no court for that slot and the same events, and is sent to the
\* calendar as an insert exactly when it reports at least one.
C23_BookingAgreesWithSlots ==
  \A r \in Procs :
    req[r].kind = "book" /\ (calls[r] = <<"list", "insert">>
                               \/ resp[r].status \in {200, 409}) =>
      /\ RequestedSlotReported(r)
      /\ LET reported == ReportedForRequest(r) IN
         /\ calls[r] = <<"list", "insert">> <=> reported >= 1
         /\ resp[r].status = 409 <=> reported = 0
         /\ resp[r].status = 200 => reported >= 1

\* a booking accepted beside an event that leaves one court reported
C23_Witness ==
  \E r \in Procs :
    /\ req[r].kind = "book"
    /\ resp[r].status = 200
    /\ ReportedForRequest(r) = 1
    /\ TimedOverlapping(listed[r], ReqStart(r), ReqEnd(r)) # {}


\* the events that /api/book created
IsBookingEvent(ev) ==
  ev.summary # <<>> /\ ev.summary[1] = "Locação Avulsa - "

\* the court that the booking was given
AssignedCourt(ev) == IF ev.summary[2] = QuadraAtom(1) THEN 1 ELSE 2

\* the intervals of two timed events share an instant
ShareAnInstant(e, f) ==
  /\ Instant(e.start) < Instant(f.end)
  /\ Instant(f.start) < Instant(e.end)

\* the stored booking events that cover the first minute of event e
CoveringStartOf(e) ==
  { i \in 1..Len(calendar) :
      /\ IsBookingEvent(calendar[i])
      /\ Instant(calendar[i].start) <= Instant(e.start)
      /\ Instant(e.start) < Instant(calendar[i].end) }

\* C24: with requests handled one at a time from an empty calendar, no two
\* stored booking events whose intervals share an instant have the same
\* court, and no instant is covered by more than two booking events.
C24_SequentialNoDoubleBooking ==
  /\ \A i, j \in 1..Len(calendar) :
       /\ i # j
       /\ IsBookingEvent(calendar[i]) /\ IsBookingEvent(calendar[j])
       /\ ShareAnInstant(calendar[i], calendar[j])
       => AssignedCourt(calendar[i]) # AssignedCourt(calendar[j])
  /\ \A i \in 1..Len(calendar) :
       Cardinality(CoveringStartOf(calendar[i])) <= 2

\* after three accepted bookings and a cancel, the two bookings that are
\* left share an hour on different courts
C24_Witness ==
  /\ nextId = 4
  /\ Len(calendar) = 2
  /\ pc[1] = "done" /\ req[1].kind = "book" /\ resp[1].status = 200
  /\ ShareAnInstant(calendar[1], calendar[2])
  /\ AssignedCourt(calendar[1]) # AssignedCourt(calendar[2])


\* C25: every stored booking event, and every booking event that a later
\* request lists, is classified known on exactly the court it was given,
\* without blockBoth, whatever name and phone the customer gave.
C25_BookingKeepsItsCourt ==
  /\ \A i \in 1..Len(calendar) :
       IsBookingEvent(calendar[i]) =>
         classifyEventToCourts(calendar[i])
           = [kind |-> "known", courts |-> {AssignedCourt(calendar[i])},
              blockBoth |-> FALSE]
  /\ \A r \in Procs : \A i \in 1..Len(listed[r]) :
       IsBookingEvent(listed[r][i]) =>
         classifyEventToCourts(listed[r][i])
           = [kind |-> "known", courts |-> {AssignedCourt(listed[r][i])},
              blockBoth |-> FALSE]


\* the booking of request 1 was accepted, its event lies ahead of the clock
\* and request 2 was answered for the same phone
BookedAndUpcoming ==
  /\ req[1].kind = "book" /\ resp[1].status = 200
  /\ req[2].kind \in {"lookup", "cancel"}
  /\ pc[2] = "done" /\ resp[2].status # 500
  /\ req[2].body.phone = req[1].body.phone
  /\ Instant(loc[1].event.start) > ThursdayNoon

\* C26: after an accepted booking with phone p whose event lies ahead, a
\* lookup with the same p answers 200 with that event among the
\* reservations, and a cancel with the same p and the event's id answers
\* 200 and the event is gone, for every name and phone that /api/book
\* accepted.
C26_BookedThenFoundAndCancelled ==
  BookedAndUpcoming =>
    /\ req[2].kind = "lookup" =>
         /\ resp[2].status = 200
         /\ \E i \in 1..Len(listed[2]) : listed[2][i].id = resp[1].eventId
    /\ req[2].kind = "cancel" /\ req[2].body.eventId = JsNum(resp[1].eventId)
         => /\ resp[2].status = 200
            /\ resp[2].eventId = resp[1].eventId
            /\ ~HasEvent(calendar, resp[1].eventId)


\* request 1 booked and request 2 then cancelled that booking
BookedThenCancelled ==
  /\ req[1].kind = "book" /\ resp[1].status = 200
  /\ req[2].kind = "cancel" /\ resp[2].status = 200
  /\ resp[2].eventId = resp[1].eventId

\* C27: after a booking and the cancel of that booking, with no other
\* request in between, computeAvailability gives for the day, for either
\* duration, what it gave for the events listed before the booking.
C27_BookThenCancelRestores ==
  BookedThenCancelled =>
    \A dur \in {60, 120} :
      computeAvailability(listEventsForDay(calendar, loc[1].date), dur,
                          loc[1].date)
        = computeAvailability(listed[1], dur, loc[1].date)

\* a booking made beside an event of the same hour and cancelled by its id
C27_Witness ==
  /\ BookedThenCancelled
  /\ Truthy(req[2].body.eventId)
  /\ TimedOverlapping(listed[1], ReqStart(1), ReqEnd(1)) # {}
  /\ ReportedForRequest(1) = 1


\* C28: every event of the listed day can only have lowered the answer:
\* no slot has more availableCourts than it has for the list without that
\* event, and a booking that is accepted is also accepted on the list
\* without any one of its events.
C28_MoreEventsNeverMoreCourts ==
  \A r \in Procs :
    /\ SlotsAnswered(r) =>
         \A i \in 1..Len(listed[r]) :
           LET without == computeAvailability(RemoveAt(listed[r], i),
                                              loc[r].dur, loc[r].date)
           IN \A k \in 1..Len(resp[r].slots) :
                resp[r].slots[k].availableCourts
                  <= without[k].availableCourts
    /\ req[r].kind = "book" /\ calls[r] = <<"list", "insert">> =>
         \A i \in 1..Len(listed[r]) :
           BookDecision(RemoveAt(listed[r], i), loc[r]).tag = "ok"

\* a slot answered with no court for three events, with one court for the
\* list without one of them
C28_Witness ==
  \E r \in Procs :
    /\ SlotsAnswered(r)
    /\ Len(listed[r]) = 3
    /\ \E i \in 1..3, k \in 1..Len(resp[r].slots) :
         /\ resp[r].slots[k].availableCourts = 0
         /\ computeAvailability(RemoveAt(listed[r], i), loc[r].dur,
                                loc[r].date)[k].availableCourts = 1


\* the timed events of the list whose interval, as instants, intersects the
\* interval [a, b) of the clock of the date
ReallyIntersecting(events, dateStr, a, b) ==
  LET midnight == DayOf(dateStr) * 1440 + TzBehindUTC IN
  { i \in 1..Len(events) :
      /\ events[i].start.form # "date"
      /\ Instant(events[i].start) < midnight + b
      /\ midnight + a < Instant(events[i].end) }

\* availableCourts when the events counted are those that really intersect
AvailableByInstants(events, dateStr, a, b) ==
  LET hit == ReallyIntersecting(events, dateStr, a, b)
      known == UNION { classifyEventToCourts(events[i]).courts :
                         i \in { j \in hit :
                           classifyEventToCourts(events[j]).kind = "known" } }
      unknown == Cardinality({ i \in hit :
                   classifyEventToCourts(events[i]).kind = "unknownSingle" })
      remaining == Max(0, 2 - Cardinality(known))
  IN IF HasAllDay(events)
        \/ \E i \in hit : classifyEventToCourts(events[i]).blockBoth
     THEN 0
     ELSE Max(0, remaining - Min(unknown, remaining))

\* C29: in every slots answer, each slot has the availableCourts that
\* follow from the listed timed events whose real interval from start to
\* end intersects the slot on the queried day, also for events that start
\* before that day or end after it.
C29_CountedWhereReallyIntersecting ==
  \A r \in Procs :
    SlotsAnswered(r) =>
      \A k \in 1..Len(resp[r].slots) :
        resp[r].slots[k].availableCourts
          = AvailableByInstants(listed[r], loc[r].date,
                                ClockMinutes(resp[r].slots[k].start),
                                ClockMinutes(resp[r].slots[k].end))


\* no two stored users have the same e-mail, letter case aside, or the same
\* digits of the phone
UsersUnique ==
  LET array == readUsers(users) IN
  \A i, j \in 1..Len(array) :
    i # j =>
      /\ toLowerCase(array[i].email) # toLowerCase(array[j].email)
      /\ KeepDigits(array[i].phone) # KeepDigits(array[j].phone)

\* user v is user u with at most another password hash and update time
SameButPassword(u, v) ==
  [v EXCEPT !.passwordHash = u.passwordHash, !.updatedAt = u.updatedAt] = u

\* a step of the reset_password handler leaves the file as it is or changes
\* one user, the one of the e-mail and phone of the request, and of that
\* user the password hash and the update time only
ResetTouchesOnlyPassword ==
  \A r \in Procs :
    pc[r] = "queued" /\ req[r].kind = "reset_password" /\ pc'[r] = "done" =>
      LET before == readUsers(users)
          after == readUsers(users')
          changed == { i \in 1..Len(before) : after[i] # before[i] }
      IN \/ users' = users
         \/ /\ Len(after) = Len(before)
            /\ Cardinality(changed) <= 1
            /\ \A i \in changed :
                 /\ SameButPassword(before[i], after[i])
                 /\ toLowerCase(before[i].email)
                      = toLowerCase(Trim(StringOrEmpty(req[r].body.email)))
                 /\ KeepDigits(before[i].phone)
                      = normalizePhone(req[r].body.phone)

\* C30: from an absent user file, after every sequence of register and
\* reset_password requests no two stored users share the e-mail (letter
\* case aside) or the digits of the phone, and a reset_password changes
\* nothing but the password hash and the update time of the user it matched.
C30_UsersUniqueResetLocal ==
  [](UsersUnique) /\ [][ResetTouchesOnlyPassword]_vars

\* two users are stored and the reset of the first one's password was just
\* answered
C30_Witness ==
  /\ Len(readUsers(users)) = 2
  /\ req[1].kind = "reset_password" /\ resp[1].status = 200
  /\ readUsers(users)[1].updatedAt = "now"
  /\ readUsers(users)[1].passwordHash = hashPassword(NovaSenha.v)
  /\ readUsers(users)[2].updatedAt = ""

====
